---- MODULE Spec2Model ----
(***************************************************************************)
(* Litetouch 2000 serial protocol engine: the priority command queue       *)
(* (commandQueue.ts), the serial transport and response correlator and the *)
(* polling driver (LitetouchConnection).                                    *)
(*                                                                         *)
(* Text is modelled as sequences of one-character strings, so that the     *)
(* regular expressions, trim, parseInt, toString and padStart of the source *)
(* are computed rather than assumed.                                        *)
(***************************************************************************)
EXTENDS Integers, Sequences, FiniteSets

(***************************************************************************)
(* Bounds of the model.                                                    *)
(***************************************************************************)
\* number of commands submitted in one behaviour
MaxCmds == 3
\* the pure-function harness draws percentages from -LevelSlack..100+LevelSlack
LevelSlack == 3

(***************************************************************************)
(* Text helpers.                                                           *)
(***************************************************************************)
\* F(v), with v evaluated once
Bind(v, F(_)) == CHOOSE r \in {F(x) : x \in {v}} : TRUE

DigitChars == <<"0", "1", "2", "3", "4", "5", "6", "7", "8", "9">>

IsDigit(c) == \E i \in 1..10 : DigitChars[i] = c

DigitVal(c) == (CHOOSE i \in 1..10 : DigitChars[i] = c) - 1

\* white space and line terminators a TLA+ string cannot write, named by
\* their code points: VT, NBSP, BOM and the other space separators
NamedSpaces ==
  { "U+000B", "U+00A0", "U+FEFF", "U+2028", "U+2029", "U+1680", "U+2000",
    "U+2001", "U+2002", "U+2003", "U+2004", "U+2005", "U+2006", "U+2007",
    "U+2008", "U+2009", "U+200A", "U+202F", "U+205F", "U+3000" }

\* the characters JavaScript's \s and String.prototype.trim treat as blank
IsSpace(c) == c \in {" ", "\t", "\n", "\r", "\f"} \cup NamedSpaces

AllDigits(s) == \A i \in 1..Len(s) : IsDigit(s[i])

AllSpaces(s) == \A i \in 1..Len(s) : IsSpace(s[i])

\* number of leading characters of s that satisfy the class
RECURSIVE LeadSpaces(_)
LeadSpaces(s) ==
  IF Len(s) > 0 /\ IsSpace(s[1]) THEN 1 + LeadSpaces(Tail(s)) ELSE 0

RECURSIVE LeadDigits(_)
LeadDigits(s) ==
  IF Len(s) > 0 /\ IsDigit(s[1]) THEN 1 + LeadDigits(Tail(s)) ELSE 0

RECURSIVE TrailSpaces(_)
TrailSpaces(s) ==
  IF Len(s) > 0 /\ IsSpace(s[Len(s)])
  THEN 1 + TrailSpaces(SubSeq(s, 1, Len(s) - 1))
  ELSE 0

Drop(s, n) == SubSeq(s, n + 1, Len(s))

\* String.prototype.trim
Trim(s) ==
  LET a == LeadSpaces(s)
  IN  IF a = Len(s) THEN <<>> ELSE SubSeq(s, a + 1, Len(s) - TrailSpaces(s))

\* parseInt(digits, 10) of a string of decimal digits
RECURSIVE ParseInt(_)
ParseInt(s) ==
  IF Len(s) = 0 THEN 0
  ELSE 10 * ParseInt(SubSeq(s, 1, Len(s) - 1)) + DigitVal(s[Len(s)])

\* Number.prototype.toString of a natural number
RECURSIVE ToString(_)
ToString(n) ==
  IF n < 10 THEN <<DigitChars[n + 1]>>
  ELSE ToString(n \div 10) \o <<DigitChars[(n % 10) + 1]>>

\* String.prototype.padStart(width, '0')
RECURSIVE PadStart(_, _)
PadStart(s, width) ==
  IF Len(s) >= width THEN s ELSE PadStart(<<"0">> \o s, width)

\* Math.round of the non-negative rational num/den: floor(num/den + 1/2)
RoundDiv(num, den) == (2 * num + den) \div (2 * den)

Max(a, b) == IF a >= b THEN a ELSE b

Min(a, b) == IF a <= b THEN a ELSE b

(***************************************************************************)
(* Protocol text: commandQueue.ts CommandPriority and the command and      *)
(* response formats of LitetouchConnection.                                 *)
(***************************************************************************)
HIGH == 0

NORMAL == 1

\* an absent string (undefined address, no regular-expression match)
NoText == <<>>

\* no LoadStatus (parseStatusResponse returned null)
NoStatus == [address |-> NoText, level |-> -1, raw |-> -1]

\* response.match(/^18\s+(\d{3})$/): the captured three digits, or NoText
StatusMatch(response) ==
  LET n == Len(response)
  IN  IF /\ n >= 6
         /\ response[1] = "1"
         /\ response[2] = "8"
         /\ AllSpaces(SubSeq(response, 3, n - 3))
         /\ AllDigits(SubSeq(response, n - 2, n))
      THEN SubSeq(response, n - 2, n)
      ELSE NoText

\* a faulty conversion that truncates instead of rounding
LevelOfRawTruncated(raw) == IF raw <= 1 THEN raw * 100 ELSE (raw * 100) \div 250

\* the level computed from the raw value
LevelOfRaw(raw) == IF raw <= 1 THEN raw * 100 ELSE RoundDiv(raw * 100, 250)

\* a faulty parser that reports a status without a correlated address
parseStatusResponseUncorrelated(response, address) ==
  LET match == StatusMatch(response)
  IN  IF match = NoText
      THEN NoStatus
      ELSE LET raw == ParseInt(match)
           IN  [address |-> address, level |-> LevelOfRaw(raw), raw |-> raw]

parseStatusResponse(response, address) ==
  LET match == StatusMatch(response)
  IN  IF match = NoText \/ address = NoText
      THEN NoStatus
      ELSE LET raw == ParseInt(match)
           IN  [address |-> address, level |-> LevelOfRaw(raw), raw |-> raw]

\* cmd.command.match(/^\s*18\s+(\d{1,2}-\d{1,2})/): the captured address, or
\* NoText when the command is no query
QueryMatch(command) ==
  Bind(command, LAMBDA text :
    Bind(Drop(text, LeadSpaces(text)), LAMBDA a :
      IF ~(Len(a) >= 3 /\ a[1] = "1" /\ a[2] = "8" /\ IsSpace(a[3]))
      THEN NoText
      ELSE Bind(Drop(a, 2 + LeadSpaces(Drop(a, 2))), LAMBDA b :
             Bind(LeadDigits(b), LAMBDA d1 :
               Bind(LeadDigits(Drop(b, d1 + 1)), LAMBDA d2 :
                 IF /\ d1 \in {1, 2}
                    /\ Len(b) > d1
                    /\ b[d1 + 1] = "-"
                    /\ d2 >= 1
                 THEN SubSeq(b, 1, d1 + 1 + Min(d2, 2))
                 ELSE NoText)))))

\* queryLoad: ` 18 ${address}`
QueryCommand(address) == <<" ", "1", "8", " ">> \o address

\* setRelay: ` 10 ${address} ${on ? '001' : '000'}`
RelayCommand(address, on) ==
  <<" ", "1", "0", " ">> \o address \o <<" ">>
    \o (IF on THEN <<"0", "0", "1">> ELSE <<"0", "0", "0">>)

\* a faulty conversion onto the byte range 0..255
DimmerRawByte(level) == RoundDiv(Max(0, Min(100, level)) * 255, 100)

\* a faulty conversion that forgets the upper clamp
DimmerRawNoUpperClamp(level) == RoundDiv(Max(0, level) * 250, 100)

\* setDimmer: the raw value round(clamp(level, 0, 100) / 100 * 250)
DimmerRaw(level) == RoundDiv(Max(0, Min(100, level)) * 250, 100)

\* setDimmer: ` 10 ${address} ${rawValue.toString().padStart(3, '0')}`
DimmerCommand(address, level) ==
  <<" ", "1", "0", " ">> \o address \o <<" ">>
    \o PadStart(ToString(DimmerRaw(level)), 3)

(***************************************************************************)
(* Inputs of the model.                                                    *)
(***************************************************************************)
Addr011 == <<"0", "1", "-", "1">>

Addr074 == <<"0", "7", "-", "4">>

\* load addresses the callers use
Addrs == {Addr011, Addr074}

\* address lists given to setLoadAddresses
AddressLists == {<<>>, <<Addr011>>, <<Addr011, Addr074>>}

\* loads driven through setRelay and setDimmer by the state machine
RelayAddrs == {Addr074}

DimmerAddrs == {Addr011}

\* percentages given to setDimmer by the state machine
DimLevels == {50}

\* lines the device sends in reply to a command, before trimming:
\* "18 125", "\n18 001 ", and the non-status lines "10 000", "18 1250"
StatusReplies ==
  { <<"1", "8", " ", "1", "2", "5">>,
    <<"\n", "1", "8", " ", "0", "0", "1", " ">> }

OtherReplies ==
  { <<"1", "0", " ", "0", "0", "0">>,
    <<"1", "8", " ", "1", "2", "5", "0">> }

ReplyLines == StatusReplies \cup OtherReplies

(***************************************************************************)
(* State.                                                                  *)
(***************************************************************************)
VARIABLES
  queue,               \* CommandQueue.queue: entries [id, command, priority]
  processing,          \* CommandQueue.processing
  inflight,            \* entries processNext is awaiting the processor for
  port,                \* this.port: "null", or a SerialPort "closed" / "open"
  connected,           \* this.connected
  parser,              \* this.parser is set
  pendingResponse,     \* this.pendingResponse: [owner, address], owner 0 = null
  pollingTimer,        \* this.pollingTimer is set
  pollArmed,           \* number of pollNextLoad timeouts that are armed
  loadAddresses,       \* this.loadAddresses
  currentPollingIndex, \* this.currentPollingIndex
  timers,              \* commands whose commandTimeout timer is armed
  writeCbs,            \* commands whose port.write callback has not run yet
  immediates,          \* setImmediate(() => this.processNext()) callbacks due
  openCb,              \* the open callback of this.port's SerialPort is owed
  closeCb,             \* the close callback of this.port's SerialPort is owed
  readers,             \* number of parsers piped from this.port's SerialPort
  orphans,             \* SerialPorts this.port no longer refers to, per kind
  unreplied,           \* written commands the device may still answer
  submitted,           \* number of commands submitted so far
  handle,              \* state of each command's promise (resolve / reject)
  result,              \* the command whose reply a handle was resolved with
  settles,             \* number of cmd.resolve / cmd.reject calls per command
  lastDispatch,        \* the entry handed to the processor last: [id, priority]
  lastRx,              \* the last line handled: [text, src, owner, command, event]
  fn,                  \* pure-function harness: [op, in, addr, out]
  awaiting,            \* platform calls awaiting their set command: [id, address]
  microtasks,          \* promise continuations due before the turn ends
  lastEvent,           \* the connection's last 'connected' / 'disconnected' / 'error' event
  pendingOnTimers,     \* platform: addresses with an entry in pendingOnTimers
  onArmed,             \* platform: levels captured by the armed 'on' timeouts
  lastDimmerLevels,    \* platform: lastDimmerLevels, 0 = no entry
  onOff,               \* platform: the OnOff attribute of each dimmer device
  shutdown,            \* platform: onShutdown is "no" / "closing" / "done"
  lastIntent,          \* platform: the handler run last: [kind, address, withdrew]
  connection,          \* platform: this.connection is set
  devices,             \* platform: the addresses this.devices has an entry for
  starting,            \* platform: onStart is "no" / "creating" / "started" / "returned"
  created,             \* platform: number of loads createDevices has built a device for
  config               \* platform: this.config as [serialPort, loads]

vars ==
  << queue, processing, inflight, port, connected, parser, pendingResponse,
     pollingTimer, pollArmed, loadAddresses, currentPollingIndex, timers,
     writeCbs,
     immediates, openCb, closeCb, readers, orphans, unreplied, submitted,
     handle, result, settles,
     lastDispatch, lastRx, fn, awaiting, microtasks, lastEvent,
     pendingOnTimers, onArmed,
     lastDimmerLevels, onOff, shutdown, lastIntent, connection, devices,
     starting, created, config >>

\* this.pendingResponse === null
NoPending == [owner |-> 0, address |-> NoText]

NoResult == 0

NoDispatch == [id |-> 0, priority |-> -1]

NoIntent == [kind |-> "none", address |-> NoText, withdrew |-> FALSE]

NoRx ==
  [text |-> NoText, src |-> 0, owner |-> 0, command |-> NoText,
   event |-> NoStatus]

CmdIds == 1..MaxCmds

\* the numbers a command can go by: those of the model's commands, and those
\* a command gets that would exceed them
Slots == 1..(MaxCmds + 2)

\* the part of the state that enqueue, processNext, processCommand and the
\* promise continuations touch; the continuation of the platform's onShutdown
\* is one of them
Core ==
  [ queue |-> queue, processing |-> processing, inflight |-> inflight,
    port |-> port, pendingResponse |-> pendingResponse, timers |-> timers,
    writeCbs |-> writeCbs, immediates |-> immediates, unreplied |-> unreplied,
    submitted |-> submitted, handle |-> handle, result |-> result,
    settles |-> settles, lastDispatch |-> lastDispatch, lastRx |-> lastRx,
    awaiting |-> awaiting, microtasks |-> microtasks,
    connection |-> connection, devices |-> devices, shutdown |-> shutdown ]

\* the step ends in the core state next; a step that would submit more
\* commands than the model numbers is left out
SetCore(next) ==
  \E s \in {next} :
  /\ s.submitted <= MaxCmds
  /\ queue' = s.queue
  /\ processing' = s.processing
  /\ inflight' = s.inflight
  /\ pendingResponse' = s.pendingResponse
  /\ timers' = s.timers
  /\ writeCbs' = s.writeCbs
  /\ immediates' = s.immediates
  /\ unreplied' = s.unreplied
  /\ submitted' = s.submitted
  /\ handle' = s.handle
  /\ result' = s.result
  /\ settles' = s.settles
  /\ lastDispatch' = s.lastDispatch
  /\ lastRx' = s.lastRx
  /\ awaiting' = s.awaiting
  /\ microtasks' = s.microtasks
  /\ connection' = s.connection
  /\ devices' = s.devices
  /\ shutdown' = s.shutdown

\* ids of the commands processNext is awaiting the processor for
Exchanges(s) == {e.id : e \in s.inflight}

\* a continuation of the microtask queue: "settle" is processNext resuming
\* after its await (the processor's promise was settled with outcome / val),
\* "resume" is the platform resuming after its awaited set command,
\* "shutdown" is onShutdown resuming after `await this.connection.close()`
Microtask(kind, id, outcome, val) ==
  [kind |-> kind, id |-> id, outcome |-> outcome, val |-> val]

\* the processor's promise for command id is settled already
Settling(s, id) ==
  \E i \in 1..Len(s.microtasks) :
    s.microtasks[i].kind = "settle" /\ s.microtasks[i].id = id

(***************************************************************************)
(* CommandQueue.                                                           *)
(***************************************************************************)
\* resolve / reject of a promise: only the first call settles it, and the
\* caller awaiting it resumes in a later microtask
SettleHandle(s, id, outcome, val) ==
  LET first == s.handle[id] = "pending"
      s1 == [s EXCEPT !.handle[id] = IF first THEN outcome ELSE @,
                      !.result[id] = IF first THEN val ELSE @,
                      !.settles[id] = @ + 1]
  IN  IF first /\ \E w \in s.awaiting : w.id = id
      THEN [s1 EXCEPT !.microtasks =
                         Append(@, Microtask("resume", id, outcome, val))]
      ELSE s1

\* queue.findIndex(cmd => cmd.priority === NORMAL), 0 when there is none
FirstNormal(q) ==
  IF \E i \in 1..Len(q) : q[i].priority = NORMAL
  THEN CHOOSE i \in 1..Len(q) :
         /\ q[i].priority = NORMAL
         /\ \A j \in 1..(i - 1) : q[j].priority # NORMAL
  ELSE 0

\* a faulty enqueue that pushes every entry at the back
InsertCmdAppend(q, cmd) == Append(q, cmd)

\* a faulty enqueue that puts a HIGH entry at the front of the queue
InsertCmdFront(q, cmd) ==
  IF cmd.priority = HIGH THEN <<cmd>> \o q ELSE Append(q, cmd)

\* enqueue, lines 45-56: where the new entry goes
InsertCmd(q, cmd) ==
  IF cmd.priority = HIGH /\ FirstNormal(q) # 0
  THEN SubSeq(q, 1, FirstNormal(q) - 1) \o <<cmd>>
         \o SubSeq(q, FirstNormal(q), Len(q))
  ELSE Append(q, cmd)

\* a faulty processNext whose finally block leaves the busy flag set
FinishKeepsBusy(s, id, outcome, val) ==
  LET s1 == SettleHandle(s, id, outcome, val)
  IN  [s1 EXCEPT !.inflight = {e \in @ : e.id # id},
                 !.immediates = IF Len(s.queue) > 0 THEN @ + 1 ELSE @]

\* processNext, lines 90-100, resuming after its await: the processor's
\* promise was settled with outcome
Finish(s, id, outcome, val) ==
  LET s1 == SettleHandle(s, id, outcome, val)
  IN  [s1 EXCEPT !.inflight = {e \in @ : e.id # id},
                 !.processing = FALSE,
                 !.immediates = IF Len(s.queue) > 0 THEN @ + 1 ELSE @]

\* resolve / reject of the promise processCommand returned for command id:
\* processNext resumes in a later microtask; a promise is settled once
SettleExchange(s, id, outcome, val) ==
  IF id \in Exchanges(s) /\ ~Settling(s, id)
  THEN [s EXCEPT !.microtasks =
                    Append(@, Microtask("settle", id, outcome, val))]
  ELSE s

\* a faulty processCommand that writes without testing port.isOpen
processCommandWithoutTest(s, cmd) ==
  [s EXCEPT !.timers = @ \cup {cmd.id},
            !.pendingResponse =
               [owner |-> cmd.id, address |-> QueryMatch(cmd.command)],
            !.writeCbs = @ \cup {cmd.id},
            !.inflight = @ \cup {cmd},
            !.unreplied = @ \cup {cmd.id}]

\* processCommand: the synchronous part, up to port.write; on a port that is
\* not open it throws, which rejects the promise processNext awaits
processCommand(s, cmd) ==
  IF s.port # "open"
  THEN [s EXCEPT !.inflight = @ \cup {cmd},
                 !.microtasks =
                    Append(@, Microtask("settle", cmd.id, "rejected", NoResult))]
  ELSE [s EXCEPT !.timers = @ \cup {cmd.id},
                 !.pendingResponse =
                    [owner |-> cmd.id, address |-> QueryMatch(cmd.command)],
                 !.writeCbs = @ \cup {cmd.id},
                 !.inflight = @ \cup {cmd},
                 !.unreplied = @ \cup {cmd.id}]

\* a faulty guard that forgets the processing flag
CanProcessIgnoreBusy(s) == Len(s.queue) > 0

\* processNext, lines 81-86: the guard
CanProcess(s) == ~s.processing /\ Len(s.queue) > 0

\* processNext, up to its await
processNext(s) ==
  IF ~CanProcess(s)
  THEN s
  ELSE processCommand(
         [s EXCEPT !.processing = TRUE,
                   !.queue = Tail(@),
                   !.lastDispatch = [id |-> Head(s.queue).id,
                                     priority |-> Head(s.queue).priority]],
         Head(s.queue))

\* enqueue
enqueue(s, command, priority) ==
  LET id  == s.submitted + 1
      cmd == [id |-> id, command |-> command, priority |-> priority]
  IN  processNext(
        [s EXCEPT !.queue = InsertCmd(@, cmd),
                  !.submitted = id,
                  !.handle[id] = "pending"])

RECURSIVE RejectAll(_, _)
RejectAll(s, q) ==
  IF Len(q) = 0 THEN s
  ELSE RejectAll(SettleHandle(s, Head(q).id, "rejected", NoResult), Tail(q))

RECURSIVE KeepHigh(_)
KeepHigh(q) ==
  IF Len(q) = 0 THEN <<>>
  ELSE IF Head(q).priority = NORMAL THEN KeepHigh(Tail(q))
       ELSE <<Head(q)>> \o KeepHigh(Tail(q))

RECURSIVE KeepNormal(_)
KeepNormal(q) ==
  IF Len(q) = 0 THEN <<>>
  ELSE IF Head(q).priority = NORMAL THEN <<Head(q)>> \o KeepNormal(Tail(q))
       ELSE KeepNormal(Tail(q))

\* a faulty clear that drops the entries without rejecting them
clearWithoutReject(s) == [s EXCEPT !.queue = <<>>]

\* CommandQueue.clear
clear(s) == [RejectAll(s, s.queue) EXCEPT !.queue = <<>>]

\* a faulty filter that cancels the entries of both classes
clearPollingCommandsAll(s) == [RejectAll(s, s.queue) EXCEPT !.queue = <<>>]

\* CommandQueue.clearPollingCommands
clearPollingCommands(s) ==
  [RejectAll(s, KeepNormal(s.queue)) EXCEPT !.queue = KeepHigh(s.queue)]

\* the address a platform call awaiting command id will re-read
AwaitedAddress(s, id) == (CHOOSE w \in s.awaiting : w.id = id).address

\* the platform's setSwitch / setDimmerLevel resuming after `await
\* this.connection.setRelay / setDimmer`: "Immediately query to get the actual
\* state" through connection.queryLoad when the command resolved and the
\* connection is still there; the catch block only logs
ResumeAfterSet(s, m) ==
  LET s1 == [s EXCEPT !.awaiting = {w \in @ : w.id # m.id}]
  IN  IF m.outcome \in {"string", "null"} /\ s.connection
      THEN enqueue(s1, QueryCommand(AwaitedAddress(s, m.id)), NORMAL)
      ELSE s1

\* onShutdown resuming after `await this.connection.close()`: the connection
\* is dropped and the device maps are emptied
ResumeAfterClose(s) ==
  [s EXCEPT !.connection = FALSE, !.devices = {}, !.shutdown = "done"]

\* one continuation of the microtask queue runs
RunMicrotask(s, m) ==
  IF m.kind = "settle"
  THEN Finish(s, m.id, m.outcome, m.val)
  ELSE IF m.kind = "resume"
  THEN ResumeAfterSet(s, m)
  ELSE ResumeAfterClose(s)

\* the end of a turn: the microtask queue is run until it is empty
RECURSIVE Drain(_)
Drain(s) ==
  IF s.microtasks = <<>>
  THEN s
  ELSE Drain(RunMicrotask([s EXCEPT !.microtasks = Tail(@)],
                          Head(s.microtasks)))

(***************************************************************************)
(* LitetouchConnection.                                                    *)
(***************************************************************************)
\* the text of the in-flight command id, NoText when there is none
CommandOf(s, id) ==
  IF id \in Exchanges(s)
  THEN (CHOOSE e \in s.inflight : e.id = id).command
  ELSE NoText

\* a faulty capture that reads the address after the slot was cleared
PendingAddressAfterClear(s) == NoText

\* the address handleResponse passes to parseStatusResponse
PendingAddress(s) == s.pendingResponse.address

\* handleResponse(data); src is the command the device was answering
handleResponse(s, data, src) ==
  LET trimmed == Trim(data)
      pendingAddress == PendingAddress(s)
      owner == s.pendingResponse.owner
      s1 == IF owner # 0
            THEN SettleExchange(
                   [s EXCEPT !.timers = @ \ {owner},
                             !.pendingResponse = NoPending],
                   owner, "string", src)
            ELSE s
      status == parseStatusResponse(trimmed, pendingAddress)
  IN  [s1 EXCEPT !.lastRx = [text |-> data, src |-> src, owner |-> owner,
                              command |-> CommandOf(s, owner),
                              event |-> status]]

\* a line read from a SerialPort that n parsers are piped from: every parser
\* hands it to handleResponse
RECURSIVE Deliver(_, _, _, _)
Deliver(s, data, src, n) ==
  IF n = 0 THEN s
  ELSE Deliver(handleResponse(s, data, src), data, src, n - 1)

\* a faulty timeout that rejects the exchange
OnTimeoutReject(s, id) ==
  SettleExchange(
    [s EXCEPT !.timers = @ \ {id}, !.pendingResponse = NoPending],
    id, "rejected", NoResult)

\* a faulty timeout that resolves the exchange and leaves the slot filled
OnTimeoutKeepsPending(s, id) ==
  SettleExchange([s EXCEPT !.timers = @ \ {id}], id, "null", NoResult)

\* the commandTimeout timer of command id fires (lines 208-212)
OnTimeout(s, id) ==
  SettleExchange(
    [s EXCEPT !.timers = @ \ {id}, !.pendingResponse = NoPending],
    id, "null", NoResult)

\* a faulty write callback that cancels the timeout and forgets to reject
OnWriteErrorNoReject(s, id) ==
  [s EXCEPT !.timers = @ \ {id}, !.pendingResponse = NoPending]

\* the port.write callback of command id runs with an error (lines 221-225)
OnWriteError(s, id) ==
  SettleExchange(
    [s EXCEPT !.timers = @ \ {id}, !.pendingResponse = NoPending],
    id, "rejected", NoResult)

\* close(), lines 308-314: drain the queue and reject the pending exchange
CloseCore(s) ==
  LET s1 == clear(s)
      owner == s1.pendingResponse.owner
  IN  IF owner # 0
      THEN SettleExchange(
             [s1 EXCEPT !.timers = @ \ {owner}, !.pendingResponse = NoPending],
             owner, "rejected", NoResult)
      ELSE s1

lifecycleVars ==
  << port, connected, parser, openCb, closeCb, readers, orphans, lastEvent >>

\* onStart's position and what it has read and built
startVars == << starting, created, config >>

debounceVars ==
  << pendingOnTimers, onArmed, lastDimmerLevels, onOff, lastIntent, startVars >>

pollingVars == << pollingTimer, pollArmed, loadAddresses, currentPollingIndex >>

coreVars ==
  << queue, processing, inflight, pendingResponse, timers, writeCbs,
     immediates, unreplied, submitted, handle, result, settles, lastDispatch,
     lastRx, awaiting, microtasks, connection, devices, shutdown >>

CanSubmit == submitted < MaxCmds

\* a callback of the event loop starts with no continuation left over
TurnStarts == microtasks = <<>>

\* the stream completes writes in the order they were issued
NextWrite == CHOOSE c \in writeCbs : \A d \in writeCbs : c <= d

\* the continuations left over by the calls of this turn run
RunMicrotasks ==
  /\ microtasks # <<>>
  /\ SetCore(Drain(Core))
  /\ UNCHANGED << lifecycleVars, pollingVars, fn, debounceVars >>

\* queryLoad(address)
QueryLoad(address) ==
  /\ CanSubmit
  /\ SetCore(enqueue(Core, QueryCommand(address), NORMAL))
  /\ UNCHANGED << lifecycleVars, pollingVars, fn, debounceVars >>

\* setRelay(address, on)
SetRelay(address, on) ==
  /\ CanSubmit
  /\ SetCore(enqueue(Core, RelayCommand(address, on), HIGH))
  /\ UNCHANGED << lifecycleVars, pollingVars, fn, debounceVars >>

\* setDimmer(address, level)
SetDimmer(address, level) ==
  /\ CanSubmit
  /\ SetCore(enqueue(Core, DimmerCommand(address, level), HIGH))
  /\ UNCHANGED << lifecycleVars, pollingVars, fn, debounceVars >>

\* the setImmediate callback of processNext runs
RunImmediate ==
  /\ TurnStarts
  /\ immediates > 0
  /\ SetCore(Drain(processNext([Core EXCEPT !.immediates = @ - 1])))
  /\ UNCHANGED << lifecycleVars, pollingVars, fn, debounceVars >>

\* a commandTimeout timer fires
Timeout(id) ==
  /\ TurnStarts
  /\ id \in timers
  /\ SetCore(Drain(OnTimeout(Core, id)))
  /\ UNCHANGED << lifecycleVars, pollingVars, fn, debounceVars >>

\* the port.write callback runs without error
WriteOk(id) ==
  /\ TurnStarts
  /\ id \in writeCbs
  /\ id = NextWrite
  /\ writeCbs' = writeCbs \ {id}
  /\ UNCHANGED << queue, processing, inflight, pendingResponse, timers,
                  immediates, unreplied, submitted, handle, result, settles,
                  lastDispatch, lastRx, awaiting, microtasks, connection,
                  devices, shutdown, lifecycleVars, pollingVars, fn,
                  debounceVars >>

\* the port.write callback runs with an error; nothing reached the device
WriteError(id) ==
  /\ TurnStarts
  /\ id \in writeCbs
  /\ id = NextWrite
  /\ SetCore(Drain(OnWriteError([Core EXCEPT !.writeCbs = @ \ {id},
                                             !.unreplied = @ \ {id}], id)))
  /\ UNCHANGED << lifecycleVars, pollingVars, fn, debounceVars >>

\* the device's reply to command src can be read: the device answers what it
\* received, in the order it received it
Replies(src) == src \in unreplied /\ src \notin writeCbs

\* the state after the parsers of this.port's SerialPort handled the reply
AfterLine(src, data) ==
  Drain(Deliver([Core EXCEPT !.unreplied = {u \in @ : u > src}],
                data, src, readers))

\* the reader of the open port delivers the device's reply to command src
LineArrives(src, data) ==
  /\ TurnStarts
  /\ port = "open"
  /\ readers > 0
  /\ Replies(src)
  /\ SetCore(AfterLine(src, data))
  /\ UNCHANGED << lifecycleVars, pollingVars, fn, debounceVars >>

\* CommandQueue.clearPollingCommands()
ClearPollingCommands ==
  /\ SetCore(clearPollingCommands(Core))
  /\ UNCHANGED << lifecycleVars, pollingVars, fn, debounceVars >>

\* CommandQueue.clear()
Clear ==
  /\ SetCore(clear(Core))
  /\ UNCHANGED << lifecycleVars, pollingVars, fn, debounceVars >>

\* a faulty cursor that stays on the address it polled
NextPollingIndexStuck(index, n) == index

\* pollNextLoad, line 282: the cursor after a poll of a list of n addresses
NextPollingIndex(index, n) == (index + 1) % n

\* a faulty setLoadAddresses that keeps the cursor of the previous list
SetLoadAddressesKeepsIndex(addresses) ==
  /\ loadAddresses' = addresses
  /\ UNCHANGED << coreVars, lifecycleVars, pollingTimer, pollArmed,
                  currentPollingIndex, fn, debounceVars >>

\* setLoadAddresses(addresses)
SetLoadAddresses(addresses) ==
  /\ loadAddresses' = addresses
  /\ currentPollingIndex' = 0
  /\ UNCHANGED << coreVars, lifecycleVars, pollingTimer, pollArmed, fn,
                  debounceVars >>

\* the core state a step ends with: a timer callback is a turn of its own
EndOf(s, turn) == IF turn THEN Drain(s) ELSE s

\* a faulty loop that gives up when there is nothing to poll
PollNextLoadStopsWhenEmpty(armed, turn) ==
  IF Len(loadAddresses) = 0
  THEN /\ pollingTimer' = FALSE
       /\ pollArmed' = armed
       /\ UNCHANGED << coreVars, loadAddresses, currentPollingIndex >>
  ELSE /\ CanSubmit
       /\ currentPollingIndex' =
            NextPollingIndex(currentPollingIndex, Len(loadAddresses))
       /\ SetCore(EndOf(enqueue(Core,
            QueryCommand(loadAddresses[currentPollingIndex + 1]), NORMAL), turn))
       /\ pollingTimer' = TRUE
       /\ pollArmed' = armed + 1
       /\ UNCHANGED loadAddresses

\* pollNextLoad(), run while `armed` polling timeouts are armed: its
\* setTimeout arms one more and stores it in this.pollingTimer
PollNextLoad(armed, turn) ==
  IF Len(loadAddresses) = 0
  THEN /\ pollingTimer' = TRUE
       /\ pollArmed' = armed + 1
       /\ UNCHANGED << coreVars, loadAddresses, currentPollingIndex >>
  ELSE /\ CanSubmit
       /\ currentPollingIndex' =
            NextPollingIndex(currentPollingIndex, Len(loadAddresses))
       /\ SetCore(EndOf(enqueue(Core,
            QueryCommand(loadAddresses[currentPollingIndex + 1]), NORMAL), turn))
       /\ pollingTimer' = TRUE
       /\ pollArmed' = armed + 1
       /\ UNCHANGED loadAddresses

\* a faulty startPolling() that forgets the test of this.pollingTimer
StartPollingWithoutTest ==
  /\ PollNextLoad(pollArmed, FALSE)
  /\ UNCHANGED << lifecycleVars, fn, debounceVars >>

\* startPolling(): returns at once when this.pollingTimer is set
StartPolling ==
  /\ IF pollingTimer
     THEN UNCHANGED << coreVars, pollingVars >>
     ELSE PollNextLoad(pollArmed, FALSE)
  /\ UNCHANGED << lifecycleVars, fn, debounceVars >>

\* an armed polling timeout fires and runs pollNextLoad()
PollTick ==
  /\ TurnStarts
  /\ pollArmed > 0
  /\ PollNextLoad(pollArmed - 1, TRUE)
  /\ UNCHANGED << lifecycleVars, fn, debounceVars >>

\* the timeouts left armed by clearTimeout(this.pollingTimer), if it is set
AfterClearTimeout == IF pollingTimer /\ pollArmed > 0 THEN pollArmed - 1 ELSE pollArmed

\* stopPolling()
StopPolling ==
  /\ pollingTimer' = FALSE
  /\ pollArmed' = AfterClearTimeout
  /\ UNCHANGED << coreVars, lifecycleVars, loadAddresses, currentPollingIndex,
                  fn, debounceVars >>

(***************************************************************************)
(* The SerialPort objects. open() constructs one and stores it in          *)
(* this.port; an object this.port no longer refers to keeps its callbacks, *)
(* its 'error' and 'close' handlers and the parsers piped from it.         *)
(***************************************************************************)
\* SerialPort objects alive at a time (opening, open or closing)
MaxPorts == 2

\* what a SerialPort this.port no longer refers to can be: about to run its
\* open callback, open, or about to run its close callback
OrphanKinds ==
  [state : {"opening", "open", "closing"}, readers : 0..MaxPorts]

Orphan(state, n) == [state |-> state, readers |-> n]

\* this.port's SerialPort, "gone" when there is none alive
CurrentState ==
  IF openCb THEN "opening"
  ELSE IF closeCb THEN "closing"
  ELSE IF port = "open" THEN "open"
  ELSE "gone"

\* the orphans once this.port is overwritten
Displaced ==
  IF CurrentState = "gone"
  THEN orphans
  ELSE [orphans EXCEPT ![Orphan(CurrentState, readers)] = @ + 1]

\* the number of SerialPorts alive
Live ==
  (IF CurrentState = "gone" THEN 0 ELSE 1)
    + Cardinality({x \in OrphanKinds \X (1..MaxPorts) : orphans[x[1]] >= x[2]})

\* the orphan of kind o becomes one of kind p (no orphan when p is "gone")
Turned(bag, o, p) ==
  LET less == [bag EXCEPT ![o] = @ - 1]
  IN  IF p = "gone" THEN less
      ELSE [less EXCEPT ![Orphan(p, o.readers)] = @ + 1]

\* a faulty open() that forgets the isOpen test
OpenWithoutTest ==
  /\ Live < MaxPorts
  /\ port' = "closed"
  /\ openCb' = TRUE
  /\ closeCb' = FALSE
  /\ readers' = 0
  /\ orphans' = Displaced
  /\ UNCHANGED << coreVars, pollingVars, connected, parser, lastEvent,
                  fn, debounceVars >>

\* the body of open(): it returns at once when the port is open, and
\* otherwise constructs a SerialPort and stores it in this.port
OpenPort ==
  IF port = "open"
  THEN UNCHANGED << port, openCb, closeCb, readers, orphans >>
  ELSE /\ Live < MaxPorts
       /\ port' = "closed"
       /\ openCb' = TRUE
       /\ closeCb' = FALSE
       /\ readers' = 0
       /\ orphans' = Displaced

\* open()
Open ==
  /\ OpenPort
  /\ UNCHANGED << coreVars, pollingVars, connected, parser, lastEvent,
                  fn, debounceVars >>

\* no open or close callback is owed
NoCallbackOwed ==
  /\ ~openCb
  /\ ~closeCb
  /\ \A o \in OrphanKinds : o.state # "open" => orphans[o] = 0

\* open() called by a caller that awaits its open() and close() calls, as
\* the platform does
AwaitedOpen ==
  /\ NoCallbackOwed
  /\ Open

\* the open callback of this.port's SerialPort runs without error (lines
\* 113-117): setupParser pipes this.port into a new parser
OpenOk ==
  /\ TurnStarts
  /\ openCb
  /\ openCb' = FALSE
  /\ port' = "open"
  /\ readers' = readers + 1
  /\ parser' = TRUE
  /\ connected' = TRUE
  /\ lastEvent' = "connected"
  /\ UNCHANGED << coreVars, pollingVars, closeCb, orphans, fn, debounceVars >>

\* the open callback of this.port's SerialPort runs with an error (lines
\* 107-110)
OpenFail ==
  /\ TurnStarts
  /\ openCb
  /\ openCb' = FALSE
  /\ UNCHANGED << coreVars, pollingVars, port, connected, parser, closeCb,
                  readers, orphans, lastEvent, fn, debounceVars >>

\* the open callback of a SerialPort this.port no longer refers to runs
\* without error: setupParser pipes whatever this.port is now, if anything
OrphanOpenOk(o) ==
  /\ TurnStarts
  /\ o.state = "opening"
  /\ orphans[o] > 0
  /\ orphans' = Turned(orphans, o, "open")
  /\ readers' = IF port = "null" THEN readers ELSE readers + 1
  /\ parser' = IF port = "null" THEN parser ELSE TRUE
  /\ connected' = TRUE
  /\ lastEvent' = "connected"
  /\ UNCHANGED << coreVars, pollingVars, port, openCb, closeCb, fn,
                  debounceVars >>

\* the open callback of a SerialPort this.port no longer refers to runs with
\* an error
OrphanOpenFail(o) ==
  /\ TurnStarts
  /\ o.state = "opening"
  /\ orphans[o] > 0
  /\ orphans' = Turned(orphans, o, "gone")
  /\ UNCHANGED << coreVars, pollingVars, port, connected, parser, openCb,
                  closeCb, readers, lastEvent, fn, debounceVars >>

\* the port closes by itself: the 'close' handler of lines 125-129
PortClosed ==
  /\ TurnStarts
  /\ port = "open"
  /\ port' = "closed"
  /\ connected' = FALSE
  /\ lastEvent' = "disconnected"
  /\ UNCHANGED << coreVars, pollingVars, parser, openCb, closeCb, readers,
                  orphans, fn, debounceVars >>

\* the open port reports an error: the 'error' handler of lines 120-123
PortError ==
  /\ TurnStarts
  /\ port = "open"
  /\ lastEvent' = "error"
  /\ UNCHANGED << coreVars, pollingVars, port, connected, parser, openCb,
                  closeCb, readers, orphans, fn, debounceVars >>

\* an open SerialPort this.port no longer refers to closes by itself: its
\* 'close' handler is that of lines 125-129
OrphanClosed(o) ==
  /\ TurnStarts
  /\ o.state = "open"
  /\ orphans[o] > 0
  /\ orphans' = Turned(orphans, o, "gone")
  /\ connected' = FALSE
  /\ lastEvent' = "disconnected"
  /\ UNCHANGED << coreVars, pollingVars, port, parser, openCb, closeCb,
                  readers, fn, debounceVars >>

\* an open SerialPort this.port no longer refers to reports an error
OrphanError(o) ==
  /\ TurnStarts
  /\ o.state = "open"
  /\ orphans[o] > 0
  /\ lastEvent' = "error"
  /\ UNCHANGED << coreVars, pollingVars, port, connected, parser, openCb,
                  closeCb, readers, orphans, fn, debounceVars >>

\* the parsers piped from an open SerialPort this.port no longer refers to
\* deliver the device's reply to command src
OrphanLineArrives(o, src, data) ==
  /\ TurnStarts
  /\ o.state = "open"
  /\ o.readers > 0
  /\ orphans[o] > 0
  /\ Replies(src)
  /\ SetCore(Drain(Deliver([Core EXCEPT !.unreplied = {u \in @ : u > src}],
                           data, src, o.readers)))
  /\ UNCHANGED << lifecycleVars, pollingVars, fn, debounceVars >>

\* close(), lines 306-314 and 316-331: stopPolling, the queue and the pending
\* exchange, which leave the core state next, then port.close on an open
\* port, or the fields set to null
ClosePort(next) ==
  /\ pollingTimer' = FALSE
  /\ pollArmed' = AfterClearTimeout
  /\ SetCore(next)
  /\ IF port = "open"
     THEN /\ port' = "closed"
          /\ closeCb' = TRUE
          /\ UNCHANGED << parser, openCb, readers, orphans >>
     ELSE /\ port' = "null"
          /\ parser' = FALSE
          /\ openCb' = FALSE
          /\ closeCb' = FALSE
          /\ readers' = 0
          /\ orphans' = Displaced
  /\ UNCHANGED << loadAddresses, currentPollingIndex, connected, lastEvent, fn >>

\* close()
Close ==
  /\ ClosePort(CloseCore(Core))
  /\ UNCHANGED debounceVars

\* close() called by a caller that awaits its open() and close() calls
AwaitedClose ==
  /\ NoCallbackOwed
  /\ Close

\* the promise of close() is resolved: an onShutdown that awaits it resumes
\* in a microtask
CloseResolved(s) ==
  IF s.shutdown = "closing"
  THEN [s EXCEPT !.microtasks = Append(@, Microtask("shutdown", 0, "none", NoResult))]
  ELSE s

\* the port has closed after close(): the 'close' handler (lines 125-129) and
\* the port.close callback (lines 318-326) run, and whoever awaits close()
\* resumes before the turn ends
CloseDone ==
  /\ TurnStarts
  /\ closeCb
  /\ closeCb' = FALSE
  /\ port' = "null"
  /\ parser' = FALSE
  /\ readers' = 0
  /\ connected' = FALSE
  /\ lastEvent' = "disconnected"
  /\ SetCore(Drain(CloseResolved(Core)))
  /\ UNCHANGED << pollingVars, openCb, orphans, fn, debounceVars >>

\* port.close failed: no 'close' event, the port.close callback (lines
\* 318-326) runs with an error and the SerialPort stays open; whoever awaits
\* close() resumes before the turn ends
CloseFail ==
  /\ TurnStarts
  /\ closeCb
  /\ closeCb' = FALSE
  /\ port' = "null"
  /\ parser' = FALSE
  /\ readers' = 0
  /\ connected' = FALSE
  /\ orphans' = [orphans EXCEPT ![Orphan("open", readers)] = @ + 1]
  /\ SetCore(Drain(CloseResolved(Core)))
  /\ UNCHANGED << pollingVars, openCb, lastEvent, fn, debounceVars >>

\* the close callback of a SerialPort this.port no longer refers to runs: it
\* sets this.port to null whatever it refers to now
OrphanCloseDone(o) ==
  /\ TurnStarts
  /\ o.state = "closing"
  /\ orphans[o] > 0
  /\ orphans' = Turned(Displaced, o, "gone")
  /\ port' = "null"
  /\ openCb' = FALSE
  /\ closeCb' = FALSE
  /\ parser' = FALSE
  /\ readers' = 0
  /\ connected' = FALSE
  /\ lastEvent' = "disconnected"
  /\ UNCHANGED << coreVars, pollingVars, fn, debounceVars >>

\* the same callback, run with an error
OrphanCloseFail(o) ==
  /\ TurnStarts
  /\ o.state = "closing"
  /\ orphans[o] > 0
  /\ orphans' = Turned(Displaced, o, "open")
  /\ port' = "null"
  /\ openCb' = FALSE
  /\ closeCb' = FALSE
  /\ parser' = FALSE
  /\ readers' = 0
  /\ connected' = FALSE
  /\ UNCHANGED << coreVars, pollingVars, lastEvent, fn, debounceVars >>

\* get isConnected
isConnected == connected /\ port = "open"

(***************************************************************************)
(* The platform's set functions.                                           *)
(***************************************************************************)
\* `await this.connection.setRelay / setDimmer(...)`: the command is
\* submitted and the caller waits for its handle
AwaitSet(s, command, address) ==
  enqueue([s EXCEPT !.awaiting =
                       @ \cup {[id |-> s.submitted + 1, address |-> address]}],
          command, HIGH)

\* this.connection?.isConnected
ConnectionUp == connection /\ isConnected

\* platform setSwitch(address, on): setRelay, awaited before the re-read
PlatformSetSwitch(address, on) ==
  /\ ConnectionUp
  /\ CanSubmit
  /\ SetCore(AwaitSet(Core, RelayCommand(address, on), address))
  /\ UNCHANGED << lifecycleVars, pollingVars, fn, debounceVars >>

(***************************************************************************)
(* The platform's dimmer command handlers and their delayed 'on'.          *)
(***************************************************************************)
\* positions of an armed 'on' timeout among those of one address
OnTimerSlots == 1..2

\* createDimmerDevice has given the device of the address its command
\* handlers
HasHandlers(address) == \E i \in 1..created : config.loads[i] = address

\* levels the Matter controller asks for, on the scale 0..254
RequestLevels == {127}

\* Math.round((request.level / 254) * 100)
LevelOfRequest(level) == RoundDiv(level * 100, 254)

\* this.lastDimmerLevels.get(address) || 100
LastLevel(address) ==
  IF lastDimmerLevels[address] = 0 THEN 100 ELSE lastDimmerLevels[address]

\* a sequence without its i-th element
Without(seq, i) == SubSeq(seq, 1, i - 1) \o SubSeq(seq, i + 1, Len(seq))

\* clearTimeout of the timer the map holds for the address: the one armed last
ClearedOn(address) ==
  IF pendingOnTimers[address] /\ Len(onArmed[address]) > 0
  THEN Without(onArmed[address], Len(onArmed[address]))
  ELSE onArmed[address]

\* setDimmerLevel(address, level) up to its first await; a timer callback is
\* a turn of its own
setDimmerLevel(address, level, turn) ==
  IF ConnectionUp
  THEN /\ CanSubmit
       /\ SetCore(EndOf(AwaitSet(Core, DimmerCommand(address, level), address),
                        turn))
  ELSE UNCHANGED coreVars

\* a faulty 'on' handler that arms a timeout without clearing the previous one
DimmerOnWithoutClear(address) ==
  /\ HasHandlers(address)
  /\ onArmed' = [onArmed EXCEPT ![address] = Append(@, LastLevel(address))]
  /\ pendingOnTimers' = [pendingOnTimers EXCEPT ![address] = TRUE]
  /\ lastIntent' = [kind |-> "on", address |-> address, withdrew |-> FALSE]
  /\ UNCHANGED << coreVars, lifecycleVars, pollingVars, fn, lastDimmerLevels,
                  onOff, startVars >>

\* the 'on' handler of a dimmer: the command is delayed by 150 ms
DimmerOn(address) ==
  /\ HasHandlers(address)
  /\ onArmed' = [onArmed EXCEPT ![address] =
                   Append(ClearedOn(address), LastLevel(address))]
  /\ pendingOnTimers' = [pendingOnTimers EXCEPT ![address] = TRUE]
  /\ lastIntent' = [kind |-> "on", address |-> address, withdrew |-> FALSE]
  /\ UNCHANGED << coreVars, lifecycleVars, pollingVars, fn, lastDimmerLevels,
                  onOff, startVars >>

\* the i-th armed timeout of the 'on' handler fires
DimmerOnFires(address, i) ==
  /\ TurnStarts
  /\ i \in 1..Len(onArmed[address])
  /\ pendingOnTimers' = [pendingOnTimers EXCEPT ![address] = FALSE]
  /\ onArmed' = [onArmed EXCEPT ![address] = Without(@, i)]
  /\ setDimmerLevel(address, onArmed[address][i], TRUE)
  /\ lastIntent' = [kind |-> "onFired", address |-> address, withdrew |-> FALSE]
  /\ UNCHANGED << lifecycleVars, pollingVars, fn, lastDimmerLevels, onOff,
                  startVars >>

\* the handlers that cancel a pending 'on' before they set a level
CancelAndSet(address, level) ==
  /\ HasHandlers(address)
  /\ onArmed' = [onArmed EXCEPT ![address] = ClearedOn(address)]
  /\ pendingOnTimers' = [pendingOnTimers EXCEPT ![address] = FALSE]
  /\ setDimmerLevel(address, level, FALSE)
  /\ UNCHANGED << lifecycleVars, pollingVars, fn, lastDimmerLevels, onOff,
                  startVars >>

\* the 'off' handler of a dimmer
DimmerOff(address) ==
  /\ CancelAndSet(address, 0)
  /\ lastIntent' = [kind |-> "off", address |-> address,
                    withdrew |-> pendingOnTimers[address]]

\* the 'toggle' handler of a dimmer: off when the OnOff attribute is on, the
\* last level otherwise; a pending 'on' is left armed
DimmerToggle(address) ==
  /\ HasHandlers(address)
  /\ setDimmerLevel(address, IF onOff[address] THEN 0 ELSE LastLevel(address),
                    FALSE)
  /\ lastIntent' = [kind |-> "toggle", address |-> address, withdrew |-> FALSE]
  /\ UNCHANGED << lifecycleVars, pollingVars, fn, pendingOnTimers, onArmed,
                  lastDimmerLevels, onOff, startVars >>

\* a faulty 'moveToLevel' handler that leaves a pending 'on' armed
DimmerMoveToLevelWithoutCancel(address, level) ==
  /\ HasHandlers(address)
  /\ setDimmerLevel(address, LevelOfRequest(level), FALSE)
  /\ lastIntent' = [kind |-> "moveToLevel", address |-> address,
                    withdrew |-> pendingOnTimers[address]]
  /\ UNCHANGED << lifecycleVars, pollingVars, fn, lastDimmerLevels,
                  pendingOnTimers, onArmed, onOff, startVars >>

\* the 'moveToLevel' handler of a dimmer
DimmerMoveToLevel(address, level) ==
  /\ CancelAndSet(address, LevelOfRequest(level))
  /\ lastIntent' = [kind |-> "moveToLevel", address |-> address,
                    withdrew |-> pendingOnTimers[address]]

\* the 'moveToLevelWithOnOff' handler of a dimmer
DimmerMoveToLevelWithOnOff(address, level) ==
  /\ CancelAndSet(address, LevelOfRequest(level))
  /\ lastIntent' = [kind |-> "moveToLevelWithOnOff", address |-> address,
                    withdrew |-> pendingOnTimers[address]]

\* handleLoadStatus finds a device for the status, and it is a dimmer
ForDimmer(known, status) ==
  status # NoStatus /\ status.address \in known /\ status.address \in DimmerAddrs

\* handleLoadStatus while this.devices holds the addresses known: a dimmer
\* that is on has its level remembered, unless setAttribute of the OnOff
\* attribute threw before (the endpoint is not active yet); the catch block
\* only logs
handleLoadStatus(known, levels, status, threw) ==
  IF ForDimmer(known, status) /\ status.level > 0 /\ ~threw
  THEN [levels EXCEPT ![status.address] = status.level]
  ELSE levels

\* handleLoadStatus: the OnOff attribute of the dimmer follows the level,
\* unless setAttribute throws
OnOffAfterStatus(known, attrs, status, threw) ==
  IF ForDimmer(known, status) /\ ~threw
  THEN [attrs EXCEPT ![status.address] = status.level > 0]
  ELSE attrs

\* the 'loadStatus' event, if any, that handleResponse emits for the line
StatusEvent(data) == parseStatusResponse(Trim(data), PendingAddress(Core))

\* the 'loadStatus' listener of onStart runs for the line, within
\* handleResponse and so with the device maps as the turn found them; threw
\* tells whether setAttribute throws in handleLoadStatus
Listener(data, threw) ==
  /\ lastDimmerLevels' =
       handleLoadStatus(devices, lastDimmerLevels, StatusEvent(data), threw)
  /\ onOff' = OnOffAfterStatus(devices, onOff, StatusEvent(data), threw)
  /\ UNCHANGED << pendingOnTimers, onArmed, lastIntent, startVars >>

\* a line arrives while the platform listens to 'loadStatus'
PlatformLine(src, data, threw) ==
  /\ TurnStarts
  /\ port = "open"
  /\ readers > 0
  /\ Replies(src)
  /\ SetCore(AfterLine(src, data))
  /\ Listener(data, threw)
  /\ UNCHANGED << lifecycleVars, pollingVars, fn >>

\* a line arrives from a SerialPort that stayed open when this.port was set
\* to null, while the platform listens to 'loadStatus'
PlatformOrphanLine(o, src, data, threw) ==
  /\ TurnStarts
  /\ o.state = "open"
  /\ o.readers > 0
  /\ orphans[o] > 0
  /\ Replies(src)
  /\ SetCore(Drain(Deliver([Core EXCEPT !.unreplied = {u \in @ : u > src}],
                           data, src, o.readers)))
  /\ Listener(data, threw)
  /\ UNCHANGED << lifecycleVars, pollingVars, fn >>

\* clearTimeout of every timer the map pendingOnTimers holds
AllCleared == [a \in DimmerAddrs |-> ClearedOn(a)]

\* onShutdown awaits close(): it resumes when the port.close callback has
\* run, or, when close() found no open port and returned, in a microtask of
\* this turn
AwaitClose(s) ==
  LET s1 == [s EXCEPT !.shutdown = "closing"]
  IN  IF port = "open" THEN s1 ELSE CloseResolved(s1)

\* onShutdown up to its await: the pending 'on' timers are cleared and the
\* connection, when there is one, is closed; without a connection the device
\* maps are emptied at once. One call is followed, made at any moment:
\* before onStart, while onStart waits for a registration, or after it
OnShutdown ==
  /\ shutdown = "no"
  /\ onArmed' = AllCleared
  /\ pendingOnTimers' = [a \in DimmerAddrs |-> FALSE]
  /\ IF connection
     THEN ClosePort(AwaitClose(CloseCore(Core)))
     ELSE /\ SetCore([Core EXCEPT !.devices = {}, !.shutdown = "done"])
          /\ UNCHANGED << lifecycleVars, pollingVars, fn >>
  /\ lastIntent' = [kind |-> "shutdown", address |-> NoText, withdrew |-> FALSE]
  /\ UNCHANGED << lastDimmerLevels, onOff, startVars >>

\* the configurations of the platform: a serial port or none, and the
\* addresses of the configured loads, dimmers first
Configs == [serialPort : BOOLEAN, loads : AddressLists]

\* onStart up to its first await: it returns at once without a serial port
\* or without loads; otherwise createDevices builds the device of the first
\* load, handlers included, and awaits its registration. One call is
\* followed: a second one would construct a second LitetouchConnection next
\* to the first
OnStart ==
  /\ starting = "no"
  /\ IF config.serialPort /\ config.loads # <<>>
     THEN /\ starting' = "creating"
          /\ created' = 1
     ELSE /\ starting' = "returned"
          /\ UNCHANGED created
  /\ UNCHANGED << coreVars, lifecycleVars, pollingVars, fn, pendingOnTimers,
                  onArmed, lastDimmerLevels, onOff, lastIntent, config >>

\* onStart after createDevices: the connection is constructed, handed the
\* addresses of the configured loads and opened
StartConnection ==
  /\ SetCore([Core EXCEPT !.devices = @ \cup {config.loads[created]},
                          !.connection = TRUE])
  /\ loadAddresses' = config.loads
  /\ currentPollingIndex' = 0
  /\ OpenPort
  /\ UNCHANGED << pollingTimer, pollArmed, connected, parser, lastEvent >>

\* registerDevice has settled for the device built last (a failure is only
\* logged): createDevices enters it in the device maps and builds the device
\* of the next load, or returns to onStart
DeviceRegistered ==
  /\ starting = "creating"
  /\ IF created < Len(config.loads)
     THEN /\ created' = created + 1
          /\ SetCore([Core EXCEPT !.devices = @ \cup {config.loads[created]}])
          /\ UNCHANGED << starting, lifecycleVars, pollingVars >>
     ELSE /\ starting' = "started"
          /\ StartConnection
          /\ UNCHANGED created
  /\ UNCHANGED << fn, pendingOnTimers, onArmed, lastDimmerLevels, onOff,
                  lastIntent, config >>

\* the number a command goes by once the settled command c is forgotten
Renumber(c, x) == IF x = c THEN 0 ELSE IF x > c THEN x - 1 ELSE x

\* the per-command record f once the settled command c is forgotten
Compact(f, c, blank) ==
  [d \in Slots |->
     IF d < c THEN f[d] ELSE IF d + 1 \in Slots THEN f[d + 1] ELSE blank]

\* the caller has dropped the settled promise of command c: the commands
\* submitted after it move up, which frees a number for a new submission
forget(s, c) ==
  [s EXCEPT
     !.queue = [i \in 1..Len(s.queue) |->
                  [s.queue[i] EXCEPT !.id = Renumber(c, @)]],
     !.inflight = {[e EXCEPT !.id = Renumber(c, @)] : e \in s.inflight},
     !.pendingResponse = [@ EXCEPT !.owner = Renumber(c, @)],
     !.timers = {Renumber(c, x) : x \in s.timers},
     !.writeCbs = {Renumber(c, x) : x \in s.writeCbs},
     !.unreplied = {Renumber(c, x) : x \in s.unreplied},
     !.submitted = @ - 1,
     !.handle = Compact(s.handle, c, "unsubmitted"),
     !.result = [d \in Slots |-> Renumber(c, Compact(s.result, c, NoResult)[d])],
     !.settles = Compact(s.settles, c, 0),
     !.lastDispatch = [@ EXCEPT !.id = Renumber(c, @)],
     !.lastRx = [@ EXCEPT !.src = Renumber(c, @), !.owner = Renumber(c, @)],
     !.awaiting = {[w EXCEPT !.id = Renumber(c, @)] : w \in s.awaiting}]

\* a settled promise nothing refers to any more is dropped, at a moment when
\* no dispatch is scheduled (which keeps the count of scheduled dispatches
\* bounded)
Forget(c) ==
  /\ TurnStarts
  /\ immediates = 0
  /\ handle[c] \in {"string", "null", "rejected"}
  /\ c \notin timers \cup writeCbs \cup unreplied \cup Exchanges(Core)
  /\ \A w \in awaiting : w.id # c
  /\ SetCore(forget(Core, c))
  /\ UNCHANGED << lifecycleVars, pollingVars, fn, debounceVars >>

\* the harness is idle
NoFn ==
  [op |-> "none", level |-> 0, value |-> 0, form |-> "none", line |-> NoText,
   addr |-> NoText, done |-> FALSE, status |-> NoStatus, command |-> NoText]

\* the state after `new LitetouchConnection(config)`
InitMachine ==
  /\ queue = <<>>
  /\ processing = FALSE
  /\ port = "null"
  /\ connected = FALSE
  /\ parser = FALSE
  /\ pendingResponse = NoPending
  /\ pollingTimer = FALSE
  /\ pollArmed = 0
  /\ loadAddresses = <<>>
  /\ currentPollingIndex = 0
  /\ timers = {}
  /\ writeCbs = {}
  /\ inflight = {}
  /\ immediates = 0
  /\ openCb = FALSE
  /\ closeCb = FALSE
  /\ readers = 0
  /\ orphans = [o \in OrphanKinds |-> 0]
  /\ unreplied = {}
  /\ submitted = 0
  /\ handle = [c \in Slots |-> "unsubmitted"]
  /\ result = [c \in Slots |-> NoResult]
  /\ settles = [c \in Slots |-> 0]
  /\ lastDispatch = NoDispatch
  /\ lastRx = NoRx
  /\ awaiting = {}
  /\ microtasks = <<>>
  /\ lastEvent = "none"
  /\ pendingOnTimers = [a \in DimmerAddrs |-> FALSE]
  /\ onArmed = [a \in DimmerAddrs |-> <<>>]
  /\ lastDimmerLevels = [a \in DimmerAddrs |-> 0]
  /\ shutdown = "no"
  /\ lastIntent = NoIntent
  /\ connection = FALSE
  /\ devices = {}
  /\ starting = "no"
  /\ created = 0

\* a connection on its own: the platform is not run
Init ==
  /\ InitMachine
  /\ onOff = [a \in DimmerAddrs |-> FALSE]
  /\ config = [serialPort |-> FALSE, loads |-> <<>>]
  /\ fn = NoFn

\* the platform after its constructor, with the configuration it was given
\* and the OnOff attributes the Matter server holds
InitPlatform ==
  /\ InitMachine
  /\ onOff \in [DimmerAddrs -> BOOLEAN]
  /\ config \in Configs
  /\ fn = NoFn

\* what this.port's SerialPort can do: its open callback, its 'close' and
\* 'error' events, its close callback
OwnPortEvents ==
  \/ OpenOk
  \/ OpenFail
  \/ PortClosed
  \/ PortError
  \/ CloseDone
  \/ CloseFail

\* what a SerialPort can do that stayed open when this.port was set to null
LeftOpenEvents ==
  \/ \E o \in OrphanKinds : OrphanClosed(o)
  \/ \E o \in OrphanKinds : OrphanError(o)
  \/ \E o \in OrphanKinds, c \in CmdIds, l \in ReplyLines :
       OrphanLineArrives(o, c, l)

\* the open callback of a SerialPort dropped while it was opening
DroppedOpenEvents ==
  \/ \E o \in OrphanKinds : OrphanOpenOk(o)
  \/ \E o \in OrphanKinds : OrphanOpenFail(o)

\* the calls on the connection and the callbacks of the queue and of the
\* transport
Traffic ==
  \/ \E a \in Addrs : QueryLoad(a)
  \/ \E a \in RelayAddrs : SetRelay(a, TRUE)
  \/ \E a \in DimmerAddrs, l \in DimLevels : SetDimmer(a, l)
  \/ RunMicrotasks
  \/ RunImmediate
  \/ \E c \in CmdIds : Timeout(c)
  \/ \E c \in CmdIds : WriteOk(c)
  \/ \E c \in CmdIds : WriteError(c)
  \/ \E c \in CmdIds, l \in ReplyLines : LineArrives(c, l)
  \/ ClearPollingCommands

\* the connection under a caller that awaits its open() and close() calls,
\* as the platform's onStart and onShutdown do, with everything the
\* SerialPorts can do
Next ==
  \/ Traffic
  \/ AwaitedOpen
  \/ AwaitedClose
  \/ OwnPortEvents
  \/ LeftOpenEvents

Spec == Init /\ [][Next]_vars

\* the line the device sends in the lifecycle specification
LifecycleLines == {<<"1", "8", " ", "1", "2", "5">>}

\* the connection under any caller, with every event of every SerialPort
NextLifecycle ==
  \/ QueryLoad(Addr074)
  \/ RunMicrotasks
  \/ RunImmediate
  \/ \E c \in CmdIds : Timeout(c)
  \/ \E c \in CmdIds : WriteOk(c)
  \/ \E c \in CmdIds : WriteError(c)
  \/ \E c \in CmdIds, l \in LifecycleLines : LineArrives(c, l)
  \/ Open
  \/ OpenOk
  \/ OpenFail
  \/ \E o \in OrphanKinds : OrphanOpenOk(o)
  \/ \E o \in OrphanKinds : OrphanOpenFail(o)
  \/ PortClosed
  \/ PortError
  \/ \E o \in OrphanKinds : OrphanClosed(o)
  \/ \E o \in OrphanKinds : OrphanError(o)
  \/ \E o \in OrphanKinds, c \in CmdIds, l \in LifecycleLines :
       OrphanLineArrives(o, c, l)
  \/ Close
  \/ CloseDone
  \/ CloseFail
  \/ \E o \in OrphanKinds : OrphanCloseDone(o)
  \/ \E o \in OrphanKinds : OrphanCloseFail(o)

SpecLifecycle == Init /\ [][NextLifecycle]_vars

\* the queue and the transport over hardware that does not fail, under a
\* caller that awaits its open() and close() calls: every open and every
\* close of the port succeeds and the port reports no error, so there is one
\* SerialPort at a time
NextSteady ==
  \/ Traffic
  \/ AwaitedOpen
  \/ OpenOk
  \/ PortClosed
  \/ AwaitedClose
  \/ CloseDone

\* timers fire, setImmediate callbacks run and turns end
FairSpec ==
  /\ Init
  /\ [][NextSteady]_vars
  /\ WF_vars(\E c \in CmdIds : Timeout(c))
  /\ WF_vars(RunImmediate)
  /\ WF_vars(RunMicrotasks)

\* the queue's own operations called on the connection's queue
NextQueue ==
  \/ Next
  \/ Clear

SpecQueue == Init /\ [][NextQueue]_vars

\* an unbounded stream of commands: settled commands are forgotten, so that
\* submissions never run out
NextStream ==
  \/ NextSteady
  \/ \E c \in CmdIds : Forget(c)

\* the stream, with timers that fire, setImmediate callbacks that run and
\* turns that end
SpecStream ==
  /\ Init
  /\ [][NextStream]_vars
  /\ WF_vars(\E c \in CmdIds : Timeout(c))
  /\ WF_vars(RunImmediate)
  /\ WF_vars(RunMicrotasks)

\* the callbacks of the queue and of the transport while the platform
\* listens, and everything the SerialPorts of the platform's connection can
\* do
PlatformEvents ==
  \/ RunMicrotasks
  \/ RunImmediate
  \/ \E c \in CmdIds : Timeout(c)
  \/ \E c \in CmdIds : WriteOk(c)
  \/ \E c \in CmdIds : WriteError(c)
  \/ \E c \in CmdIds, l \in ReplyLines, threw \in BOOLEAN :
       PlatformLine(c, l, threw)
  \/ OwnPortEvents
  \/ DroppedOpenEvents
  \/ \E o \in OrphanKinds : OrphanClosed(o)
  \/ \E o \in OrphanKinds : OrphanError(o)
  \/ \E o \in OrphanKinds, c \in CmdIds, l \in ReplyLines, threw \in BOOLEAN :
       PlatformOrphanLine(o, c, l, threw)

\* the calls Matterbridge makes in the life of a platform, onStart and
\* onShutdown once each and in either order, and the registrations that
\* onStart waits for
Lifecycle ==
  \/ OnStart
  \/ DeviceRegistered
  \/ OnShutdown

\* the handlers of a dimmer and the timeout its 'on' handler arms
DimmerHandlers ==
  \/ \E a \in DimmerAddrs : DimmerOn(a)
  \/ \E a \in DimmerAddrs, i \in OnTimerSlots : DimmerOnFires(a, i)
  \/ \E a \in DimmerAddrs : DimmerOff(a)
  \/ \E a \in DimmerAddrs : DimmerToggle(a)
  \/ \E a \in DimmerAddrs, l \in RequestLevels : DimmerMoveToLevel(a, l)
  \/ \E a \in DimmerAddrs, l \in RequestLevels : DimmerMoveToLevelWithOnOff(a, l)

\* the dimmer handlers of the platform
NextDebounce ==
  \/ Lifecycle
  \/ DimmerHandlers
  \/ PlatformEvents

SpecDebounce == InitPlatform /\ [][NextDebounce]_vars

\* the polling driver on top of the queue and the transport
NextPoll ==
  \/ NextSteady
  \/ \E l \in AddressLists : SetLoadAddresses(l)
  \/ StartPolling
  \/ PollTick
  \/ StopPolling

SpecPoll == Init /\ [][NextPoll]_vars

\* onConfigure starts the polling loop when the connection is up
OnConfigure ==
  /\ ConnectionUp
  /\ StartPolling

\* the platform's polling as the only source of commands
NextDriver ==
  \/ Lifecycle
  \/ OnConfigure
  \/ PollTick
  \/ PlatformEvents

SpecDriver == InitPlatform /\ [][NextDriver]_vars

\* the 'on' handler of a switch
SwitchOn(address) ==
  /\ HasHandlers(address)
  /\ PlatformSetSwitch(address, TRUE)

\* the 'off' handler of a switch; its 'toggle' handler makes this call or
\* that of the 'on' handler, as the OnOff attribute of the switch tells
SwitchOff(address) ==
  /\ HasHandlers(address)
  /\ PlatformSetSwitch(address, FALSE)

\* the platform after its constructor, configured with a serial port, the
\* dimmer and the switch; the OnOff attribute of a new device is off
InitConfigured ==
  /\ InitMachine
  /\ onOff = [a \in DimmerAddrs |-> FALSE]
  /\ config = [serialPort |-> TRUE, loads |-> <<Addr011, Addr074>>]
  /\ fn = NoFn

\* the callbacks of the queue and of the transport while the platform
\* listens, over hardware that does not fail: every open and every close of
\* a port succeeds and no port reports an error. A port that onShutdown
\* dropped while it was opening still opens and closes; setupParser finds
\* this.port null then and pipes no parser, so that its lines reach nobody
PlatformSteadyEvents ==
  \/ RunMicrotasks
  \/ RunImmediate
  \/ \E c \in CmdIds : Timeout(c)
  \/ \E c \in CmdIds : WriteOk(c)
  \/ \E c \in CmdIds : WriteError(c)
  \/ \E c \in CmdIds, l \in ReplyLines, threw \in BOOLEAN :
       PlatformLine(c, l, threw)
  \/ OpenOk
  \/ PortClosed
  \/ CloseDone
  \/ \E o \in OrphanKinds : OrphanOpenOk(o)
  \/ \E o \in OrphanKinds : OrphanClosed(o)

\* the platform with a dimmer and a switch: its lifecycle, its polling and
\* every command handler of its two devices
NextPlatform ==
  \/ Lifecycle
  \/ OnConfigure
  \/ PollTick
  \/ \E a \in RelayAddrs : SwitchOn(a)
  \/ \E a \in RelayAddrs : SwitchOff(a)
  \/ DimmerHandlers
  \/ PlatformSteadyEvents

SpecPlatform == InitConfigured /\ [][NextPlatform]_vars

(***************************************************************************)
(* The conversions on their own: parseStatusResponse on a line and         *)
(* setDimmer's command text, applied to inputs drawn by the initial state. *)
(***************************************************************************)
\* shapes of line built around the three digits of a value
LineForms ==
  {"status", "padded", "blanks", "twoSpaces", "noSpace", "code10", "long"}

DigitsOf(value) == PadStart(ToString(value), 3)

LineOf(form, value) ==
  CASE form = "status"    -> <<"1", "8", " ">> \o DigitsOf(value)
    [] form = "padded"    -> <<" ", "1", "8", " ">> \o DigitsOf(value) \o <<"\n">>
    [] form = "blanks"    -> <<"\f", "1", "8", "U+00A0">> \o DigitsOf(value)
                               \o <<"U+000B">>
    [] form = "twoSpaces" -> <<"1", "8", " ", " ">> \o DigitsOf(value)
    [] form = "noSpace"   -> <<"1", "8">> \o DigitsOf(value)
    [] form = "code10"    -> <<"1", "0", " ">> \o DigitsOf(value)
    [] form = "long"      -> <<"1", "8", " ">> \o DigitsOf(value) \o <<"0">>

\* the forms whose digits are varied over every three-digit value
FullForms == {"status", "padded", "blanks"}

\* values the other forms are built around
FewValues == {0, 1, 125, 250}

FnLevels == (0 - LevelSlack)..(100 + LevelSlack)

ParseInputs ==
  { [NoFn EXCEPT !.op = "parse", !.value = v, !.form = f,
                   !.line = LineOf(f, v), !.addr = a] :
      v \in 0..999, f \in FullForms, a \in {Addr011, NoText} }
  \cup
  { [NoFn EXCEPT !.op = "parse", !.value = v, !.form = f,
                   !.line = LineOf(f, v), !.addr = a] :
      v \in FewValues, f \in LineForms \ FullForms, a \in {Addr011} }

EncodeInputs ==
  { [NoFn EXCEPT !.op = "encode", !.level = l, !.addr = a] :
      l \in FnLevels, a \in Addrs }

\* levels sent with setDimmer and read back from the device's status line
RoundTripInputs ==
  { [NoFn EXCEPT !.op = "roundtrip", !.level = l, !.addr = a] :
      l \in FnLevels, a \in {Addr011} }

InitFn ==
  /\ InitMachine
  /\ onOff = [a \in DimmerAddrs |-> FALSE]
  /\ config = [serialPort |-> FALSE, loads |-> <<>>]
  /\ fn \in ParseInputs \cup EncodeInputs \cup RoundTripInputs

machineVars ==
  << queue, processing, inflight, port, connected, parser, pendingResponse,
     pollingTimer, pollArmed, loadAddresses, currentPollingIndex, timers,
     writeCbs,
     immediates, openCb, closeCb, readers, orphans, unreplied, submitted,
     handle, result, settles,
     lastDispatch, lastRx, awaiting, microtasks, lastEvent, pendingOnTimers,
     onArmed, lastDimmerLevels, onOff, shutdown, lastIntent, connection,
     devices, starting, created, config >>

\* handleResponse's trim followed by parseStatusResponse
FnParse ==
  /\ fn.op = "parse"
  /\ ~fn.done
  /\ fn' = [fn EXCEPT !.done = TRUE,
                      !.status = parseStatusResponse(Trim(fn.line), fn.addr)]
  /\ UNCHANGED machineVars

\* setDimmer's command text
FnSetDimmer ==
  /\ fn.op = "encode"
  /\ ~fn.done
  /\ fn' = [fn EXCEPT !.done = TRUE,
                      !.command = DimmerCommand(fn.addr, fn.level)]
  /\ UNCHANGED machineVars

\* the status line of a load that holds the value a command text set
StatusLineOf(command) ==
  <<"1", "8", " ">> \o SubSeq(command, Len(command) - 2, Len(command))

\* setDimmer's command text, and the load's status line decoded afterwards
FnRoundTrip ==
  /\ fn.op = "roundtrip"
  /\ ~fn.done
  /\ fn' = [fn EXCEPT
              !.done = TRUE,
              !.command = DimmerCommand(fn.addr, fn.level),
              !.line = StatusLineOf(DimmerCommand(fn.addr, fn.level)),
              !.status = parseStatusResponse(
                           Trim(StatusLineOf(DimmerCommand(fn.addr, fn.level))),
                           fn.addr)]
  /\ UNCHANGED machineVars

NextFn == FnParse \/ FnSetDimmer \/ FnRoundTrip

SpecFn == InitFn /\ [][NextFn]_vars

(***************************************************************************)
(* Properties.                                                             *)
(***************************************************************************)
QueueHas(q, priority) == \E i \in 1..Len(q) : q[i].priority = priority

\* C1: whenever the queue hands a NORMAL command to the processor, no HIGH
\* command is left waiting in the queue.
C1_NormalNeverOvertakesHigh ==
  [][ (lastDispatch' # lastDispatch /\ lastDispatch'.priority = NORMAL)
        => ~QueueHas(queue', HIGH) ]_vars

\* a HIGH command was dispatched ahead of a NORMAL one submitted before it
C1_Witness ==
  /\ lastDispatch.priority = HIGH
  /\ \E i \in 1..Len(queue) :
       queue[i].priority = NORMAL /\ queue[i].id < lastDispatch.id

\* C2: at most one written command has an unresolved exchange, and the
\* queue is busy while it has.
C2_OneExchangeOutstanding ==
  /\ Cardinality(inflight) <= 1
  /\ Cardinality(timers) <= 1
  /\ (inflight # {} => processing)

\* an exchange is outstanding while two commands wait for the channel
C2_Witness == inflight # {} /\ Len(queue) >= 2

\* C3: HIGH entries precede NORMAL entries and each class is in submission
\* order.
C3_QueueOrdered ==
  \A i, j \in 1..Len(queue) :
    i < j =>
      /\ queue[i].priority <= queue[j].priority
      /\ (queue[i].priority = queue[j].priority => queue[i].id < queue[j].id)

\* a HIGH entry stands before a NORMAL entry that was submitted earlier
C3_Witness ==
  \E i, j \in 1..Len(queue) :
    /\ i < j
    /\ queue[i].priority = HIGH
    /\ queue[j].priority = NORMAL
    /\ queue[i].id > queue[j].id

Settled(c) == handle[c] \in {"string", "null", "rejected"}

\* C4: a handle resolved with a response line was resolved with the device's
\* reply to that same command.
C4_ReplyBelongsToCommand ==
  \A c \in CmdIds : handle[c] = "string" => result[c] = c

\* C5: when the timeout of an in-flight command fires, its handle is resolved
\* with null, the pending exchange is cleared, the busy flag is released and,
\* if commands are waiting, the next dispatch is scheduled; an idle queue
\* with waiting commands always has a dispatch scheduled.
C5_TimeoutResolvesNull ==
  /\ [][ \A c \in CmdIds :
           (c \in Exchanges(Core) /\ Timeout(c)) =>
             /\ handle'[c] = "null"
             /\ settles'[c] = 1
             /\ pendingResponse' = NoPending
             /\ c \notin timers'
             /\ ~processing'
             /\ (Len(queue) > 0 => immediates' = immediates + 1) ]_vars
  /\ [](Len(queue) > 0 /\ ~processing => immediates > 0)

\* a command timed out and the command queued behind it was dispatched
C5_Witness ==
  \E c \in CmdIds :
    /\ handle[c] = "null"
    /\ lastDispatch.id > c
    /\ lastDispatch.id \in Exchanges(Core)

\* the processor's promise of command id was rejected and processNext has
\* not resumed yet
Rejecting(id) ==
  \E i \in 1..Len(microtasks) :
    microtasks[i] = Microtask("settle", id, "rejected", NoResult)

\* after the step, the handle of command id is rejected, or will be when
\* the turn ends
RejectedInTurn(id) ==
  \/ handle'[id] = "rejected"
  \/ \E i \in 1..Len(microtasks') :
       microtasks'[i] = Microtask("settle", id, "rejected", NoResult)

\* when the turn ends, the handles of the rejected exchanges are rejected
TurnEndRejects ==
  \A c \in CmdIds : (Rejecting(c) /\ RunMicrotasks) => handle'[c] = "rejected"

\* C6: close() rejects every queued handle and the in-flight handle (the
\* latter when its turn ends), cancels the in-flight timeout and leaves the
\* queue and the pending exchange empty.
C6_CloseRejectsEverything ==
  [][ /\ Close =>
           /\ \A i \in 1..Len(queue) : handle'[queue[i].id] = "rejected"
           /\ \A e \in inflight : RejectedInTurn(e.id)
           /\ timers' = {}
           /\ queue' = <<>>
           /\ pendingResponse' = NoPending
      /\ TurnEndRejects ]_vars

\* the same, for a close() that finds the in-flight command in the pending
\* exchange
C6_CloseWithPendingSlot ==
  [][ /\ (Close /\ (\A e \in inflight :
                       pendingResponse.owner = e.id \/ Rejecting(e.id))) =>
           /\ \A i \in 1..Len(queue) : handle'[queue[i].id] = "rejected"
           /\ \A e \in inflight : RejectedInTurn(e.id)
           /\ timers' = {}
           /\ queue' = <<>>
           /\ pendingResponse' = NoPending
      /\ TurnEndRejects ]_vars

\* C7: every submitted handle is eventually settled, and resolve / reject is
\* called at most once on each handle.
C7_SettledExactlyOnce ==
  /\ \A c \in CmdIds : (handle[c] = "pending") ~> Settled(c)
  /\ [](\A c \in CmdIds : settles[c] <= 1 /\ (Settled(c) <=> settles[c] = 1))
  /\ [][ \A c \in CmdIds : Settled(c) => handle'[c] = handle[c] ]_vars

\* three commands were settled, one with a line, one with null, one rejected
C7_Witness ==
  /\ \E c \in CmdIds : handle[c] = "string"
  /\ \E c \in CmdIds : handle[c] = "null"
  /\ \E c \in CmdIds : handle[c] = "rejected"

\* the commands queryLoad builds, and the address each one names
IsQueryFor(command, address) == command = QueryCommand(address)

\* C8: a loadStatus event is emitted exactly when the line is a status line
\* and the pending exchange at arrival is a query; its address is the query's.
C8_StatusEventIffCorrelated ==
  lastRx.src # 0 =>
    /\ (lastRx.event # NoStatus) <=>
         /\ lastRx.text \in StatusReplies
         /\ lastRx.owner # 0
         /\ \E a \in Addrs : IsQueryFor(lastRx.command, a)
    /\ lastRx.event # NoStatus => IsQueryFor(lastRx.command, lastRx.event.address)

\* a status line answered a pending query for 07-4 and the event was emitted
C8_Witness ==
  /\ lastRx.event # NoStatus
  /\ lastRx.event.address = Addr074
  /\ lastRx.event.raw = 1

Abs(x) == IF x < 0 THEN 0 - x ELSE x

\* C9: a status line with a captured address decodes to its three-digit
\* number as raw value; raw 0 gives level 0, raw 1 gives level 100, and raw
\* 2..250 gives the integer nearest to raw / 250 * 100, which is in 1..100.
C9_DecodeLevel ==
  (fn.op = "parse" /\ fn.done) =>
    /\ (fn.form \in FullForms /\ fn.addr # NoText) => fn.status # NoStatus
    /\ fn.status # NoStatus =>
         /\ fn.status.raw = fn.value
         /\ fn.status.address = fn.addr
         /\ (fn.value = 0 => fn.status.level = 0)
         /\ (fn.value = 1 => fn.status.level = 100)
         /\ (fn.value = 125 => fn.status.level = 50)
         /\ (fn.value \in 2..250 =>
               /\ fn.status.level \in 1..100
               /\ 2 * Abs(250 * fn.status.level - 100 * fn.value) <= 250)

\* the line "18 125" was decoded for a query of 01-1
C9_Witness ==
  /\ fn.op = "parse"
  /\ fn.done
  /\ fn.form = "status"
  /\ fn.status = [address |-> Addr011, level |-> 50, raw |-> 125]

\* the percentage clamped to 0..100
Clamped(p) == IF p < 0 THEN 0 ELSE IF p > 100 THEN 100 ELSE p

\* the number written by the last three characters of a text
LastThree(text) ==
  100 * DigitVal(text[Len(text) - 2]) + 10 * DigitVal(text[Len(text) - 1])
    + DigitVal(text[Len(text)])

\* C10: setDimmer's command is " 10 <addr> VVV" with VVV three digits whose
\* value is clamp(p, 0, 100) * 2.5 rounded half up, hence in 0..250.
C10_DimmerEncoding ==
  (fn.op = "encode" /\ fn.done) =>
    /\ Len(fn.command) = Len(fn.addr) + 8
    /\ SubSeq(fn.command, 1, 4) = <<" ", "1", "0", " ">>
    /\ SubSeq(fn.command, 5, Len(fn.addr) + 4) = fn.addr
    /\ fn.command[Len(fn.addr) + 5] = " "
    /\ AllDigits(SubSeq(fn.command, Len(fn.addr) + 6, Len(fn.addr) + 8))
    /\ LastThree(fn.command) \in 0..250
    /\ 100 * LastThree(fn.command) - 250 * Clamped(fn.level) > -50
    /\ 100 * LastThree(fn.command) - 250 * Clamped(fn.level) <= 50
    /\ (fn.level <= 0 => LastThree(fn.command) = 0)
    /\ (fn.level = 50 => LastThree(fn.command) = 125)
    /\ (fn.level >= 100 => LastThree(fn.command) = 250)

\* setDimmer("01-1", 50) built " 10 01-1 125"
C10_Witness ==
  /\ fn.op = "encode"
  /\ fn.done
  /\ fn.level = 50
  /\ fn.command =
       <<" ", "1", "0", " ", "0", "1", "-", "1", " ", "1", "2", "5">>

\* C11: a level in 0..100 encoded by setDimmer and decoded from the status
\* line that carries the encoded value comes back within one percentage point.
C11_RoundTripWithinOne ==
  (fn.op = "roundtrip" /\ fn.done /\ fn.level \in 0..100) =>
    /\ fn.status # NoStatus
    /\ Abs(fn.status.level - fn.level) <= 1

\* level 33 went out as raw 083 and came back as level 33
C11_Witness ==
  /\ fn.op = "roundtrip"
  /\ fn.done
  /\ fn.level = 33
  /\ fn.status.raw = 83
  /\ fn.status.level = 33

\* the entries waiting in a queue
Waiting(q) == {q[i] : i \in 1..Len(q)}

\* the command submitted by this step, if it is still queued or in flight,
\* has the given text and priority
SubmitsAs(command, priority) ==
  /\ submitted' = submitted + 1
  /\ handle[submitted'] = "unsubmitted"
  /\ handle'[submitted'] # "unsubmitted"
  /\ \A e \in inflight' \cup Waiting(queue') :
       e.id = submitted' => e.command = command /\ e.priority = priority

\* C12: every run of the polling step arms the next tick; with an empty
\* address list it submits nothing, otherwise it submits the query of the
\* next address; and once armed, only stopPolling() or close() disarm the
\* loop, whatever happens to the queries.
C12_PollingKeepsRescheduling ==
  [][ /\ (StartPolling \/ PollTick) =>
           /\ pollingTimer'
           /\ (Len(loadAddresses) = 0 => UNCHANGED coreVars)
           /\ (Len(loadAddresses) > 0 =>
                 SubmitsAs(QueryCommand(loadAddresses[currentPollingIndex + 1]),
                           NORMAL))
      /\ (pollingTimer /\ ~pollingTimer') => (StopPolling \/ Close) ]_vars

\* the loop is armed after a tick over a two-address list, after one query
\* was rejected and another timed out
C12_Witness ==
  /\ pollingTimer
  /\ Len(loadAddresses) = 2
  /\ currentPollingIndex = 1
  /\ \E c \in CmdIds : handle[c] = "rejected"
  /\ \E c \in CmdIds : handle[c] = "null"

\* C13: a line handled while the pending exchange is empty settles no handle,
\* emits no status event and leaves the queue, the busy flag, the pending
\* exchange and the armed timeouts as they were.
C13_UncorrelatedLineDiscarded ==
  [][ \A c \in CmdIds, l \in ReplyLines :
        (pendingResponse = NoPending /\ LineArrives(c, l)) =>
          /\ lastRx'.event = NoStatus
          /\ UNCHANGED << queue, processing, inflight, pendingResponse, timers,
                          immediates, handle, result, settles, lastDispatch >> ]_vars

\* the status line answering a command that had already timed out was handled
\* with no pending exchange
C13_Witness ==
  /\ lastRx.src # 0
  /\ lastRx.owner = 0
  /\ lastRx.text \in StatusReplies
  /\ handle[lastRx.src] = "null"
  /\ lastRx.event = NoStatus

\* C14 as stated: CommandQueue.clear rejects every queued entry and the
\* in-flight entry and leaves the queue empty.
C14_ClearRejectsInFlight ==
  [][ Clear =>
        /\ \A e \in Waiting(queue) : handle'[e.id] = "rejected"
        /\ \A e \in inflight : handle'[e.id] = "rejected"
        /\ queue' = <<>> ]_vars

\* C14 as amended: CommandQueue.clear rejects every queued entry and leaves
\* the queue empty; the in-flight entry, its handle, the busy flag, the
\* pending exchange and its timeout are left as they were.
C14_ClearRejectsQueuedOnly ==
  [][ Clear =>
        /\ \A e \in Waiting(queue) : handle'[e.id] = "rejected"
        /\ queue' = <<>>
        /\ \A e \in inflight : handle'[e.id] = handle[e.id]
        /\ UNCHANGED << inflight, processing, pendingResponse, timers >> ]_vars

\* command 1 is in flight with its timeout armed while the two commands
\* submitted behind it were rejected without ever being dispatched
C14_Witness ==
  /\ \E e \in inflight : e.id = 1 /\ handle[1] = "pending"
  /\ lastDispatch.id = 1
  /\ pendingResponse.owner = 1
  /\ timers = {1}
  /\ processing
  /\ queue = <<>>
  /\ handle[2] = "rejected"
  /\ handle[3] = "rejected"

\* the position of the entry with the given id in a queue
PositionOf(q, id) == CHOOSE i \in 1..Len(q) : q[i].id = id

\* C15: clearPollingCommands rejects and removes exactly the queued NORMAL
\* entries; the queued HIGH entries stay, in the same relative order and with
\* their handles untouched, and the in-flight command, its handle, the busy
\* flag and the pending exchange are unchanged.
C15_CancelsOnlyQueuedNormal ==
  [][ ClearPollingCommands =>
        /\ Waiting(queue') = {e \in Waiting(queue) : e.priority = HIGH}
        /\ Len(queue') = Cardinality(Waiting(queue'))
        /\ \A i, j \in 1..Len(queue') :
             i < j => PositionOf(queue, queue'[i].id) < PositionOf(queue, queue'[j].id)
        /\ \A c \in CmdIds :
             handle'[c] =
               IF \E e \in Waiting(queue) : e.id = c /\ e.priority = NORMAL
               THEN "rejected"
               ELSE handle[c]
        /\ UNCHANGED << inflight, processing, pendingResponse, timers,
                        lastDispatch >> ]_vars

\* with command 1 in flight, the queued command 2 was cancelled without being
\* dispatched while the HIGH command 3 still waits with its handle pending
C15_Witness ==
  /\ \E e \in inflight : e.id = 1 /\ handle[1] = "pending"
  /\ lastDispatch.id = 1
  /\ handle[2] = "rejected"
  /\ Len(queue) = 1
  /\ queue[1].id = 3
  /\ queue[1].priority = HIGH
  /\ handle[3] = "pending"

\* the command submitted by this step does not wait behind a NORMAL entry
NotBehindNormal ==
  \A i \in 1..Len(queue') :
    queue'[i].id = submitted' => \A j \in 1..(i - 1) : queue'[j].priority = HIGH

\* platform calls that can be awaiting a set command
Awaitable == {[id |-> c, address |-> a] : c \in CmdIds, a \in Addrs}

\* the platform call w resumes after its set command resolved, which is where
\* it issues the re-read
ReReadAfter(w) ==
  /\ w \in awaiting
  /\ w \notin awaiting'
  /\ handle'[w.id] \in {"string", "null"}

\* a handler of the dimmer, or the timeout of its 'on' handler, calls
\* setDimmerLevel(address, level) and the call reaches setDimmer
CallsSetDimmer(address, level) ==
  /\ ConnectionUp
  /\ \E turn \in BOOLEAN : setDimmerLevel(address, level, turn)

\* C16: setRelay and setDimmer submit at HIGH priority, queryLoad issued for
\* polling submits at NORMAL priority, and the re-read the platform issues
\* after a set resolved is submitted at HIGH priority, hence never behind a
\* waiting polling query.
C16_ReReadIsHigh ==
  [][ /\ \A a \in RelayAddrs, on \in BOOLEAN :
           (SetRelay(a, on) \/ PlatformSetSwitch(a, on)) =>
             SubmitsAs(RelayCommand(a, on), HIGH)
      /\ \A a \in DimmerAddrs, l \in 0..100 :
           (SetDimmer(a, l) \/ CallsSetDimmer(a, l)) =>
             SubmitsAs(DimmerCommand(a, l), HIGH)
      /\ \A a \in Addrs :
           QueryLoad(a) => SubmitsAs(QueryCommand(a), NORMAL)
      /\ \A w \in Awaitable :
           ReReadAfter(w) =>
             /\ SubmitsAs(QueryCommand(w.address), HIGH)
             /\ NotBehindNormal ]_vars

\* C17: close() leaves neither the polling timer nor a command timeout armed,
\* from whatever state it is called, and a close() that follows a close()
\* changes nothing in the queue, the handles or the pending exchange.
C17_CloseLeavesNoTimer ==
  /\ [][ Close => (timers' = {} /\ ~pollingTimer') ]_vars
  /\ [](CloseCore(CloseCore(Core)) = CloseCore(Core))

\* the queue handed an entry of the class to the processor last, or no entry
\* of the class waits (any more)
Served(priority) ==
  lastDispatch.priority = priority \/ ~QueueHas(queue, priority)

\* C18: while commands keep being submitted, whenever a NORMAL entry waits the
\* queue eventually dispatches a NORMAL entry (or none is left waiting), and
\* whenever a HIGH entry waits it eventually dispatches a HIGH entry; each
\* class is first-in first-out, so every waiting entry gets its turn.
C18_NeitherClassStarves ==
  /\ QueueHas(queue, NORMAL) ~> Served(NORMAL)
  /\ QueueHas(queue, HIGH) ~> Served(HIGH)

\* C19: a failure while opening leaves the transport not connected, and an
\* error reported by the open port returns it to Closed: isConnected is false,
\* the reader is torn down and 'disconnected' is the event signaled.
C19_ErrorReturnsToClosed ==
  [][ /\ OpenFail => ~isConnected'
      /\ PortError =>
           /\ ~isConnected'
           /\ ~parser'
           /\ lastEvent' = "disconnected" ]_vars

\* C20: open() called while the port is open creates no SerialPort and no
\* reader, signals no event and leaves the queue, the pending exchange and
\* everything else as it was.
C20_OpenIdempotent ==
  [][ (port = "open" /\ Open) =>
        /\ port' = "open"
        /\ ~openCb'
        /\ UNCHANGED << parser, connected, lastEvent, closeCb, readers, orphans,
                        coreVars, pollingVars >> ]_vars

\* the port is open and connected with a command in flight and another one
\* waiting, while an earlier SerialPort is still around: open() returns at
\* once here
C20_Witness ==
  /\ port = "open"
  /\ ENABLED Open
  /\ connected
  /\ parser
  /\ lastEvent = "connected"
  /\ pendingResponse.owner # 0
  /\ Len(queue) > 0
  /\ \E o \in OrphanKinds : orphans[o] > 0

\* C21: exactly one polling timeout is armed while this.pollingTimer is set
\* and none otherwise, so no tick fires after stopPolling(); startPolling()
\* while running and stopPolling() while not running change nothing; a tick
\* only fires while polling is running.
C21_OnePollingTimer ==
  /\ [](pollArmed = IF pollingTimer THEN 1 ELSE 0)
  /\ [][ /\ (pollingTimer /\ StartPolling) => UNCHANGED << coreVars, pollingVars >>
         /\ (~pollingTimer /\ StopPolling) => UNCHANGED << coreVars, pollingVars >>
         /\ PollTick => pollingTimer ]_vars

\* polling ticked over a two-address list and was stopped: no timeout is armed
C21_Witness ==
  /\ ~pollingTimer
  /\ pollArmed = 0
  /\ Len(loadAddresses) = 2
  /\ currentPollingIndex = 1
  /\ submitted >= 1

\* the command id is waiting in the queue
Queued(id) == \E i \in 1..Len(queue) : queue[i].id = id

\* C22: when the write of the in-flight command c fails, the handle of c and
\* no other is rejected, the timeout of c is cancelled, the pending exchange
\* is cleared, the port stays as it was, the busy flag is cleared and a
\* dispatch is scheduled for the next queued command; an idle queue that
\* holds a command always has a dispatch scheduled, and every queued command
\* eventually leaves the queue.
C22_FailureDoesNotJam ==
  /\ [][ \A c \in CmdIds :
           (c \in Exchanges(Core) /\ WriteError(c)) =>
             /\ handle[c] = "pending"
             /\ handle'[c] = "rejected"
             /\ \A d \in CmdIds \ {c} : handle'[d] = handle[d]
             /\ timers' = timers \ {c}
             /\ pendingResponse' = NoPending
             /\ port' = port /\ connected' = connected /\ parser' = parser
             /\ ~processing'
             /\ queue' = queue
             /\ Len(queue) > 0 => immediates' = immediates + 1 ]_vars
  /\ []((~processing /\ Len(queue) > 0) => immediates > 0)
  /\ \A c \in CmdIds : Queued(c) ~> ~Queued(c)

\* the write of command 1 failed while another command waited: the port is
\* still open and the dispatch of the next command is scheduled
C22_Witness ==
  /\ handle[1] = "rejected"
  /\ lastDispatch.id = 1
  /\ port = "open"
  /\ ~processing
  /\ Len(queue) > 0
  /\ immediates > 0
  /\ pendingResponse = NoPending

\* C23: a command handed to the processor while the port is not open (never
\* opened, closed by close() or closed by the hardware) fails at once: no
\* write is issued, no pending exchange is installed, no timeout is armed,
\* and its handle is rejected before the turn of the dispatch ends.
C23_DispatchOnClosedPortFails ==
  [][ /\ (lastDispatch' # lastDispatch /\ port # "open") =>
           /\ RejectedInTurn(lastDispatch'.id)
           /\ lastDispatch'.id \notin writeCbs' \cup unreplied' \cup timers'
           /\ writeCbs' = writeCbs
           /\ unreplied' = unreplied
           /\ pendingResponse' = pendingResponse
           /\ timers' = timers
      /\ TurnEndRejects
      /\ \A c \in CmdIds : (Rejecting(c) /\ ~Rejecting(c)') => RunMicrotasks ]_vars

\* the port was never opened and command 1 was rejected at its dispatch,
\* while the command submitted in the same turn waits for the next dispatch
C23_Witness ==
  /\ port = "null"
  /\ lastEvent = "none"
  /\ lastDispatch.id = 1
  /\ handle[1] = "rejected"
  /\ handle[2] = "pending"
  /\ Queued(2)
  /\ immediates = 1
  /\ timers = {}
  /\ writeCbs = {}
  /\ pendingResponse = NoPending

\* the cursors of k successive runs of pollNextLoad over a list of n addresses
RECURSIVE Cursors(_, _, _)
Cursors(index, n, k) ==
  IF k = 0 THEN <<>>
  ELSE <<index>> \o Cursors(NextPollingIndex(index, n), n, k - 1)

\* pollNextLoad runs: startPolling() while stopped, or a tick
PollStep == (~pollingTimer /\ StartPolling) \/ PollTick

\* C24: over a list of n >= 1 addresses each run of pollNextLoad submits
\* exactly one NORMAL query, for the address at the cursor, and moves the
\* cursor one place on modulo n without touching the list; so n successive
\* runs starting at any cursor visit the n positions once each, in the
\* cyclic order of the list.
C24_RoundRobin ==
  /\ [][ (Len(loadAddresses) > 0 /\ PollStep) =>
           /\ SubmitsAs(QueryCommand(loadAddresses[currentPollingIndex + 1]),
                        NORMAL)
           /\ currentPollingIndex' =
                (currentPollingIndex + 1) % Len(loadAddresses)
           /\ loadAddresses' = loadAddresses ]_vars
  /\ [](Len(loadAddresses) > 0 =>
         LET n == Len(loadAddresses)
             visited == Cursors(currentPollingIndex, n, n)
         IN  /\ \A k \in 1..n :
                   visited[k] = (currentPollingIndex + k - 1) % n
             /\ \A i \in 0..(n - 1) :
                   Cardinality({k \in 1..n : visited[k] = i}) = 1)

\* three ticks over a two-address list: the queries of 01-1, 07-4 and 01-1
\* again were submitted in that order and the cursor has wrapped around once
C24_Witness ==
  /\ loadAddresses = <<Addr011, Addr074>>
  /\ currentPollingIndex = 1
  /\ pollingTimer
  /\ submitted = 3
  /\ \E e \in inflight : e.id = 1 /\ e.command = QueryCommand(Addr011)
  /\ Len(queue) = 2
  /\ queue[1].id = 2 /\ queue[1].command = QueryCommand(Addr074)
  /\ queue[2].id = 3 /\ queue[2].command = QueryCommand(Addr011)

\* C25: the polling cursor is a valid index of the address list: 0 when the
\* list is empty, below the length of the list otherwise.
C25_CursorValid ==
  /\ currentPollingIndex >= 0
  /\ Len(loadAddresses) = 0 => currentPollingIndex = 0
  /\ Len(loadAddresses) > 0 => currentPollingIndex < Len(loadAddresses)

\* polling runs, the cursor stood at the second address of a two-address
\* list, and the list was then replaced by a shorter one
C25_Witness ==
  /\ pollingTimer
  /\ Len(loadAddresses) = 1
  /\ currentPollingIndex = 0
  /\ \E e \in inflight \cup Waiting(queue) : e.command = QueryCommand(Addr074)

\* the number of NORMAL entries waiting in the queue
PollingDepth == Cardinality({i \in 1..Len(queue) : queue[i].priority = NORMAL})

\* C26: the number of polling queries waiting in the queue never exceeds the
\* number of configured load addresses.
C26_DepthBoundedByLoads == PollingDepth <= Len(loadAddresses)

\* a set-level handler runs for the address with the requested level
SetLevelIntent(address, level) ==
  DimmerMoveToLevel(address, level) \/ DimmerMoveToLevelWithOnOff(address, level)

\* C27: each dimmer address has at most one delayed 'on' armed, the one the
\* platform's map records; a set-level handler (moveToLevel,
\* moveToLevelWithOnOff) leaves no delayed 'on' armed for its address and
\* submits, when the connection is up, exactly its own set command at HIGH
\* priority and nothing otherwise; and only an 'on' that is still recorded
\* as pending is ever turned into a command.
C27_SetLevelWithdrawsDelayedOn ==
  /\ [](\A a \in DimmerAddrs :
          /\ Len(onArmed[a]) <= 1
          /\ pendingOnTimers[a] <=> Len(onArmed[a]) = 1)
  /\ [][ \A a \in DimmerAddrs :
           /\ \A l \in RequestLevels :
                SetLevelIntent(a, l) =>
                  /\ onArmed'[a] = <<>>
                  /\ ~pendingOnTimers'[a]
                  /\ ConnectionUp =>
                        SubmitsAs(DimmerCommand(a, LevelOfRequest(l)), HIGH)
                  /\ ~ConnectionUp => UNCHANGED coreVars
           /\ \A i \in OnTimerSlots :
                DimmerOnFires(a, i) => pendingOnTimers[a] /\ i = 1 ]_vars

\* a moveToLevel arrived while the 'on' of the same dimmer was still delayed:
\* the 'on' was withdrawn and the only command submitted is the set to 50 %
C27_Witness ==
  /\ lastIntent = [kind |-> "moveToLevel", address |-> Addr011, withdrew |-> TRUE]
  /\ onArmed[Addr011] = <<>>
  /\ ~pendingOnTimers[Addr011]
  /\ submitted = 1
  /\ \E e \in inflight : e.id = 1 /\ e.command = DimmerCommand(Addr011, 50)

\* C28: the write-error callback of a command that is no longer in flight
\* leaves the pending exchange and the timeout of the command that is in
\* flight alone, and the reply to the command in flight resolves its handle.
C28_WriteCallbackOwnExchangeOnly ==
  [][ /\ \A c \in CmdIds :
           (WriteError(c) /\ c \notin Exchanges(Core)) =>
             /\ pendingResponse' = pendingResponse
             /\ timers' = timers
             /\ handle' = handle
      /\ \A c \in CmdIds, l \in ReplyLines :
           (LineArrives(c, l) /\ c \in Exchanges(Core)) =>
             handle'[c] = "string" /\ result'[c] = c ]_vars

\* C29: every status parseStatusResponse builds, for any three-digit value
\* 000..999, carries a level between 0 and 100.
C29_LevelInPercentRange ==
  (fn.op = "parse" /\ fn.done /\ fn.status # NoStatus) =>
    fn.status.level \in 0..100

\* C30: while a pending exchange exists the queue is busy, the exchange is
\* that of the command the queue handed to the processor last, that command
\* is in flight and it is no longer in the queue.
C30_PendingExchangeIsDispatched ==
  pendingResponse # NoPending =>
    /\ processing
    /\ pendingResponse.owner = lastDispatch.id
    /\ pendingResponse.owner \in Exchanges(Core)
    /\ ~Queued(pendingResponse.owner)

\* command 2 is in flight with its exchange pending after command 1 was
\* settled, and a third command waits in the queue
C30_Witness ==
  /\ pendingResponse.owner = 2
  /\ processing
  /\ lastDispatch.id = 2
  /\ handle[1] \in {"string", "null", "rejected"}
  /\ Len(queue) = 1
  /\ queue[1].id = 3

====
